---- MODULE Spec2Model ----
(***************************************************************************)
(* Model of the template rendering engine of src/lib/template-processor.ts *)
(* (the last revision in that file, lines 1292-2218): the value formatter, *)
(* the placeholder resolver, the two renderers with their caches, the      *)
(* fallback reporters and the dispatcher.                                  *)
(*                                                                         *)
(* Conventions.  A JavaScript string is a sequence of one-character        *)
(* strings; a character outside ASCII is written uXXXX, its code point.    *)
(* A JavaScript value is a record with a field t naming its      *)
(* type.  A number is a non-negative integer hi * 10^6 + lo (two limbs,    *)
(* because epoch milliseconds do not fit one machine integer).  An object  *)
(* is the sequence of its own entries in insertion order.  Dates are read  *)
(* in UTC.                                                                 *)
(***************************************************************************)
EXTENDS Integers, Sequences, FiniteSets, TLC

(***************************************************************************)
(* Strings                                                                 *)
(***************************************************************************)
UpperChars == <<"A","B","C","D","E","F","G","H","I","J","K","L","M",
                "N","O","P","Q","R","S","T","U","V","W","X","Y","Z">>

LowerChars == <<"a","b","c","d","e","f","g","h","i","j","k","l","m",
                "n","o","p","q","r","s","t","u","v","w","x","y","z">>

DigitChars == <<"0","1","2","3","4","5","6","7","8","9">>

LowerChar(c) ==
  IF \E i \in 1..26 : UpperChars[i] = c
    THEN LowerChars[CHOOSE i \in 1..26 : UpperChars[i] = c]
    ELSE c

toLowerCase(s) == [i \in 1..Len(s) |-> LowerChar(s[i])]

includes(s, sub) ==
  \E i \in 0..(Len(s) - Len(sub)) : SubSeq(s, i + 1, i + Len(sub)) = sub

RECURSIVE trimStart(_)
trimStart(s) ==
  IF s # <<>> /\ Head(s) = " " THEN trimStart(Tail(s)) ELSE s

RECURSIVE trimEnd(_)
trimEnd(s) ==
  IF s # <<>> /\ s[Len(s)] = " " THEN trimEnd(SubSeq(s, 1, Len(s) - 1)) ELSE s

trim(s) == trimEnd(trimStart(s))

IsDigit(c) == \E i \in 1..10 : DigitChars[i] = c

DigitVal(c) == (CHOOSE i \in 1..10 : DigitChars[i] = c) - 1

\* /^\d+$/.test(s)
AllDigits(s) == s # <<>> /\ \A i \in 1..Len(s) : IsDigit(s[i])

RECURSIVE join(_, _)
join(strs, sep) ==
  IF strs = <<>> THEN <<>>
  ELSE IF Len(strs) = 1 THEN strs[1]
  ELSE strs[1] \o sep \o join(Tail(strs), sep)

RECURSIVE Digits(_)
Digits(n) ==
  IF n < 10 THEN <<DigitChars[n + 1]>>
  ELSE Digits(n \div 10) \o <<DigitChars[(n % 10) + 1]>>

RECURSIVE padStart(_, _, _)
padStart(s, width, c) ==
  IF Len(s) >= width THEN s ELSE padStart(<<c>> \o s, width, c)

(***************************************************************************)
(* Values                                                                  *)
(***************************************************************************)
Undefined == [t |-> "undefined"]
Null == [t |-> "null"]
Bool(b) == [t |-> "boolean", b |-> b]
Str(s) == [t |-> "string", s |-> s]
Num(hi, lo) == [t |-> "number", hi |-> hi, lo |-> lo]
Arr(items) == [t |-> "array", items |-> items]
Obj(entries) == [t |-> "object", entries |-> entries]
Entry(k, v) == [k |-> k, v |-> v]
NaN == [t |-> "NaN"]
Function(name) == [t |-> "function", name |-> name]

Small(n) == Num(n \div 1000000, n % 1000000)

NumGreater(a, bhi, blo) == a.hi > bhi \/ (a.hi = bhi /\ a.lo > blo)

\* own keys in insertion order (Object.keys), 'k' in obj, obj[k]
Keys(o) == [i \in 1..Len(o.entries) |-> o.entries[i].k]

HasKey(o, k) == \E i \in 1..Len(o.entries) : o.entries[i].k = k

Get(o, k) ==
  IF HasKey(o, k)
    THEN o.entries[CHOOSE i \in 1..Len(o.entries) : o.entries[i].k = k].v
    ELSE Undefined

\* obj[k] = v: an existing key keeps its place, a new key goes last
Put(o, k, v) ==
  IF HasKey(o, k)
    THEN Obj([i \in 1..Len(o.entries) |->
                IF o.entries[i].k = k THEN Entry(k, v) ELSE o.entries[i]])
    ELSE Obj(Append(o.entries, Entry(k, v)))

kConstructor == <<"c","o","n","s","t","r","u","c","t","o","r">>
kToString == <<"t","o","S","t","r","i","n","g">>
kValueOf == <<"v","a","l","u","e","O","f">>
kHasOwnProperty == <<"h","a","s","O","w","n","P","r","o","p","e","r","t","y">>
kProto == <<"_","_","p","r","o","t","o","_","_">>

\* what an object literal inherits from Object.prototype under key k (the
\* members named here stand for all of them)
Inherited(k) ==
  IF k = kConstructor THEN Function(<<"O","b","j","e","c","t">>)
  ELSE IF k \in {kToString, kValueOf, kHasOwnProperty} THEN Function(k)
  ELSE IF k = kProto THEN Obj(<<>>)
  ELSE Undefined

\* obj[k] for a key k of any spelling: an own entry, else an inherited member
Lookup(o, k) == IF HasKey(o, k) THEN Get(o, k) ELSE Inherited(k)

\* {...a, ...b}
RECURSIVE Spread(_, _)
Spread(a, b) ==
  IF b.entries = <<>> THEN a
  ELSE Spread(Put(a, b.entries[1].k, b.entries[1].v), Obj(Tail(b.entries)))

\* Array.prototype.find over a sequence of strings: the first match, or Undefined
find(keys, Pred(_)) ==
  IF \E i \in 1..Len(keys) : Pred(keys[i])
    THEN Str(keys[CHOOSE i \in 1..Len(keys) :
                    Pred(keys[i]) /\ \A j \in 1..(i - 1) : ~Pred(keys[j])])
    ELSE Undefined

\* a find result used as a condition: undefined and '' are falsy
Truthy(found) == found.t = "string" /\ found.s # <<>>

(***************************************************************************)
(* Number and string conversions                                           *)
(***************************************************************************)
NumToStr(v) ==
  IF v.hi = 0 THEN Digits(v.lo)
  ELSE Digits(v.hi) \o padStart(Digits(v.lo), 6, "0")

\* parseInt(s, 10) of a string of digits
RECURSIVE ParseDigitsFrom(_, _)
ParseDigitsFrom(acc, s) ==
  IF s = <<>> THEN acc
  ELSE LET x == acc.lo * 10 + DigitVal(s[1])
       IN  ParseDigitsFrom(Num(acc.hi * 10 + x \div 1000000, x % 1000000), Tail(s))

parseInt(s) == ParseDigitsFrom(Num(0, 0), s)

\* String(v)
RECURSIVE String(_)
String(v) ==
  CASE v.t = "undefined" -> <<"u","n","d","e","f","i","n","e","d">>
    [] v.t = "null" -> <<"n","u","l","l">>
    [] v.t = "NaN" -> <<"N","a","N">>
    [] v.t = "boolean" -> IF v.b THEN <<"t","r","u","e">> ELSE <<"f","a","l","s","e">>
    [] v.t = "string" -> v.s
    [] v.t = "number" -> NumToStr(v)
    [] v.t = "array" ->
         join([i \in 1..Len(v.items) |->
                 IF v.items[i].t \in {"null", "undefined"} THEN <<>>
                 ELSE String(v.items[i])], <<",">>)
    [] v.t = "object" ->
         <<"[","o","b","j","e","c","t"," ","O","b","j","e","c","t","]">>
    [] v.t = "function" ->
         <<"f","u","n","c","t","i","o","n"," ">> \o v.name
           \o <<"(",")"," ","{"," ","[","n","a","t","i","v","e"," ","c","o","d","e","]"," ","}">>

\* Number(s) of a string: blank is 0, digits are their value, anything else NaN
StringToNumber(s) ==
  IF trim(s) = <<>> THEN Num(0, 0)
  ELSE IF AllDigits(trim(s)) THEN parseInt(trim(s))
  ELSE NaN

\* Number(v)
Number(v) ==
  CASE v.t = "undefined" -> NaN
    [] v.t = "NaN" -> NaN
    [] v.t = "null" -> Num(0, 0)
    [] v.t = "boolean" -> IF v.b THEN Num(0, 1) ELSE Num(0, 0)
    [] v.t = "number" -> v
    [] v.t = "string" -> StringToNumber(v.s)
    [] v.t = "array" -> StringToNumber(String(v))
    [] v.t = "object" -> NaN
    [] v.t = "function" -> NaN

isNaN(v) == v.t = "NaN"

\* JSON.stringify(v) of a value read from JSON
RECURSIVE stringify(_)
stringify(v) ==
  CASE v.t = "string" -> <<"\"">> \o v.s \o <<"\"">>
    [] v.t = "array" ->
         <<"[">> \o join([i \in 1..Len(v.items) |-> stringify(v.items[i])], <<",">>)
                \o <<"]">>
    [] v.t = "object" ->
         <<"{">> \o join([i \in 1..Len(v.entries) |->
                            <<"\"">> \o v.entries[i].k \o <<"\"", ":">>
                              \o stringify(v.entries[i].v)], <<",">>)
                \o <<"}">>
    [] OTHER -> String(v)

(***************************************************************************)
(* Dates (the Date object, read in UTC)                                    *)
(***************************************************************************)
\* days since 1970-01-01 of an epoch in milliseconds: ms \div 86400000
DaysOfMs(v) == (5 * v.hi + (5 * v.lo) \div 1000000) \div 432

\* getFullYear(), getMonth() + 1, getDate() of the day number z - 719468
CivilFromDays(days) ==
  LET z == days + 719468
      era == z \div 146097
      doe == z - era * 146097
      yoe == (doe - doe \div 1460 + doe \div 36524 - doe \div 146096) \div 365
      doy == doe - (365 * yoe + yoe \div 4 - yoe \div 100)
      mp == (5 * doy + 2) \div 153
      d == doy - (153 * mp + 2) \div 5 + 1
      m == IF mp < 10 THEN mp + 3 ELSE mp - 9
  IN  [ok |-> TRUE, y |-> yoe + era * 400 + (IF m <= 2 THEN 1 ELSE 0),
       m |-> m, d |-> d]

InvalidDate == [ok |-> FALSE, y |-> 0, m |-> 0, d |-> 0]

\* new Date(number): every number of the model is within the range of Date
DateOfNumber(v) == CivilFromDays(DaysOfMs(v))

RECURSIVE split(_, _)
split(s, sep) ==
  IF \E i \in 1..Len(s) : s[i] = sep
    THEN LET i == CHOOSE i \in 1..Len(s) :
                    s[i] = sep /\ \A j \in 1..(i - 1) : s[j] # sep
         IN  <<SubSeq(s, 1, i - 1)>> \o split(SubSeq(s, i + 1, Len(s)), sep)
    ELSE <<s>>

DaysInMonth(y, m) ==
  IF m = 2
    THEN (IF (y % 4 = 0 /\ y % 100 # 0) \/ y % 400 = 0 THEN 29 ELSE 28)
    ELSE IF m \in {4, 6, 9, 11} THEN 30 ELSE 31

\* new Date(string): YYYY, YYYY-MM, YYYY-MM-DD and YYYY/MM/DD are dates, other
\* text is not
DateOfString(s) ==
  LET parts == IF includes(s, <<"/">>) THEN split(s, "/") ELSE split(s, "-")
      n == Len(parts)
      y == parseInt(parts[1]).lo
      m == IF n >= 2 THEN parseInt(parts[2]).lo ELSE 1
      d == IF n >= 3 THEN parseInt(parts[3]).lo ELSE 1
  IN  IF /\ n <= 3
         /\ includes(s, <<"/">>) => n = 3
         /\ \A i \in 1..n : AllDigits(parts[i])
         /\ Len(parts[1]) = 4
         /\ \A i \in 2..n : Len(parts[i]) <= 2
         /\ m \in 1..12 /\ d \in 1..DaysInMonth(y, m)
        THEN [ok |-> TRUE, y |-> y, m |-> m, d |-> d]
        ELSE InvalidDate

\* `${y}u5e74${m}u6708${d}u65e5`
ChineseDate(date) ==
  Digits(date.y) \o <<"u5e74">> \o Digits(date.m) \o <<"u6708">> \o Digits(date.d) \o <<"u65e5">>

\* `${y}-${mm}-${dd}`
StandardDate(date) ==
  Digits(date.y) \o <<"-">> \o padStart(Digits(date.m), 2, "0")
                 \o <<"-">> \o padStart(Digits(date.d), 2, "0")

\* a test that no field name passes
NoDateField(fieldName) == FALSE

\* the date keyword test on a field name
isDateField(fieldName) ==
  \/ includes(toLowerCase(fieldName), <<"u65e5","u671f">>)
  \/ includes(toLowerCase(fieldName), <<"d","a","t","e">>)
  \/ includes(toLowerCase(fieldName), <<"t","i","m","e">>)

FormatDate(date, fieldName) ==
  IF isDateField(fieldName) THEN ChineseDate(date) ELSE StandardDate(date)

\* Intl.NumberFormat('zh-CN', CNY, 2 fraction digits) of an integer
RECURSIVE GroupThousands(_)
GroupThousands(ds) ==
  IF Len(ds) <= 3 THEN ds
  ELSE GroupThousands(SubSeq(ds, 1, Len(ds) - 3)) \o <<",">>
         \o SubSeq(ds, Len(ds) - 2, Len(ds))

Currency(v) == <<"u00a5">> \o GroupThousands(NumToStr(v)) \o <<".","0","0">>

(***************************************************************************)
(* Value formatter                                                         *)
(***************************************************************************)
CountField == <<"u62a5","u540d","u5355","u4f4d","u8ba1","u6570">>

kText == <<"t","e","x","t">>
kValue == <<"v","a","l","u","e">>
kName == <<"n","a","m","e">>
kTitle == <<"t","i","t","l","e">>
kType == <<"t","y","p","e">>

\* a test that holds for every field name
AnyField(fieldName) == TRUE

\* fieldName === CountField: the field whose value stays a number
IsCountField(fieldName) == fieldName = CountField

\* the text of the value as it is
TextOf(value, fieldName) == Str(String(value))

RECURSIVE formatValueByType(_, _)
formatValueByType(value, fieldName) ==
  IF value.t \in {"null", "undefined"} THEN Str(<<>>)
  ELSE IF IsCountField(fieldName) /\ ~isNaN(Number(value)) THEN Number(value)
  ELSE IF value.t = "number" THEN
    IF NumGreater(value, 1000000, 0) /\ DateOfNumber(value).ok
      THEN Str(FormatDate(DateOfNumber(value), fieldName))
      ELSE Str(String(value))
  ELSE IF value.t = "array" THEN
    Str(join([i \in 1..Len(value.items) |->
                String(formatValueByType(value.items[i], fieldName))], <<",", " ">>))
  ELSE IF value.t = "object" THEN
    IF HasKey(value, kType) /\ HasKey(value, kValue) THEN
      LET fieldType == Get(value, kType)
          fieldValue == Get(value, kValue)
      IN  IF fieldType = Small(1) THEN
            IF fieldValue.t = "array"
              THEN Str(join([i \in 1..Len(fieldValue.items) |->
                      LET item == fieldValue.items[i]
                      IN  IF item.t = "object" /\ HasKey(item, kText)
                            THEN String(Get(item, kText))
                            ELSE String(item)], <<>>))
              ELSE Str(String(fieldValue))
          ELSE IF fieldType = Small(2) THEN
            IF IsCountField(fieldName) /\ ~isNaN(Number(fieldValue))
              THEN Number(fieldValue)
            ELSE IF ~isNaN(Number(fieldValue))
              THEN Str(Currency(Number(fieldValue)))
            ELSE Str(String(fieldValue))
          ELSE formatValueByType(fieldValue, fieldName)
    ELSE IF HasKey(value, kText) /\ Get(value, kText) # Undefined
      THEN Str(String(Get(value, kText)))
    ELSE IF HasKey(value, kValue) /\ Get(value, kValue) # Undefined
      THEN formatValueByType(Get(value, kValue), fieldName)
    ELSE IF HasKey(value, kName) /\ Get(value, kName).t = "string"
      THEN Get(value, kName)
    ELSE IF HasKey(value, kTitle) /\ Get(value, kTitle).t = "string"
      THEN Get(value, kTitle)
    ELSE Str(stringify(value))
  ELSE IF value.t = "string" THEN
    IF AllDigits(trim(value.s))
      THEN formatValueByType(parseInt(trim(value.s)), fieldName)
    ELSE IF (includes(value.s, <<"-">>) \/ includes(value.s, <<"/">>))
            /\ DateOfString(value.s).ok
      THEN Str(FormatDate(DateOfString(value.s), fieldName))
    ELSE Str(String(value))
  ELSE Str(String(value))

(***************************************************************************)
(* Placeholder resolver                                                    *)
(***************************************************************************)
sufText == <<"_","t","e","x","t">>
sufChinese == <<"_","c","h","i","n","e","s","e">>
sufFormatted == <<"_","f","o","r","m","a","t","t","e","d">>
wChinese == <<"c","h","i","n","e","s","e">>
wFormatted == <<"f","o","r","m","a","t","t","e","d">>

resolveFieldValue(fieldName, recordData) ==
  LET textKey == fieldName \o sufText
      chineseKey == fieldName \o sufChinese
      formattedKey == fieldName \o sufFormatted
      lowerFieldName == toLowerCase(fieldName)
      fieldKeys == Keys(recordData)
      IsChinese(key) == /\ includes(toLowerCase(key), lowerFieldName)
                        /\ includes(toLowerCase(key), wChinese)
      IsFormatted(key) == /\ includes(toLowerCase(key), lowerFieldName)
                          /\ includes(toLowerCase(key), wFormatted)
      IsText(key) == toLowerCase(key) = lowerFieldName \o sufText
      IsSame(key) == toLowerCase(key) = lowerFieldName
      chineseMatch == find(fieldKeys, IsChinese)
      formattedMatch == find(fieldKeys, IsFormatted)
      textMatch == find(fieldKeys, IsText)
      match == find(fieldKeys, IsSame)
  IN  IF Lookup(recordData, fieldName) # Undefined
        THEN formatValueByType(Lookup(recordData, fieldName), fieldName)
      ELSE IF Lookup(recordData, textKey) # Undefined
        THEN Str(String(Lookup(recordData, textKey)))
      ELSE IF isDateField(fieldName) /\ Lookup(recordData, chineseKey) # Undefined
        THEN Str(String(Lookup(recordData, chineseKey)))
      ELSE IF isDateField(fieldName) /\ Lookup(recordData, formattedKey) # Undefined
        THEN Str(String(Lookup(recordData, formattedKey)))
      ELSE IF isDateField(lowerFieldName) /\ Truthy(chineseMatch)
        THEN Str(String(Get(recordData, chineseMatch.s)))
      ELSE IF isDateField(lowerFieldName) /\ Truthy(formattedMatch)
        THEN Str(String(Get(recordData, formattedMatch.s)))
      ELSE IF Truthy(textMatch)
        THEN Str(String(Get(recordData, textMatch.s)))
      ELSE IF Truthy(match)
        THEN formatValueByType(Get(recordData, match.s), match.s)
      ELSE Str(<<>>)

(***************************************************************************)
(* Wall clock: Date.now() is ClockStart plus the milliseconds gone by      *)
(***************************************************************************)
ClockStart == Num(1700000, 0)

NowMs(now) == Num(ClockStart.hi, ClockStart.lo + now)

\* milliseconds since midnight: ms % 86400000
MsOfDay(v) ==
  LET days == DaysOfMs(v)
  IN  (v.hi - (days * 864) \div 10) * 1000000 + v.lo - ((days * 864) % 10) * 100000

\* toTimeString().split(' ')[0]: HH:MM:SS
TimeOfDay(v) ==
  LET t == MsOfDay(v) \div 1000
  IN  padStart(Digits(t \div 3600), 2, "0") \o <<":">>
        \o padStart(Digits((t \div 60) % 60), 2, "0") \o <<":">>
        \o padStart(Digits(t % 60), 2, "0")

\* toISOString(): YYYY-MM-DDTHH:MM:SS.mmmZ
toISOString(v) ==
  StandardDate(DateOfNumber(v)) \o <<"T">> \o TimeOfDay(v) \o <<".">>
    \o padStart(Digits(MsOfDay(v) % 1000), 3, "0") \o <<"Z">>

(***************************************************************************)
(* Records and the rendering context                                       *)
(***************************************************************************)
kRecordId == <<"r","e","c","o","r","d","_","i","d">>
kRecordIdCamel == <<"r","e","c","o","r","d","I","d">>
kFields == <<"f","i","e","l","d","s">>
kFieldMeta == <<"f","i","e","l","d","M","e","t","a">>
sUnknown == <<"u","n","k","n","o","w","n">>

\* !v
Falsy(v) ==
  \/ v.t \in {"undefined", "null", "NaN"}
  \/ v.t = "string" /\ v.s = <<>>
  \/ v.t = "number" /\ v.hi = 0 /\ v.lo = 0
  \/ v.t = "boolean" /\ ~v.b

getRecordFields(record) ==
  IF HasKey(record, kFields) THEN Get(record, kFields) ELSE record

getRecordId(record) ==
  IF Falsy(record) THEN Str(sUnknown)
  ELSE IF record.t = "string" THEN record
  ELSE IF record.t # "object" THEN Str(sUnknown)
  ELSE IF ~Falsy(Get(record, kRecordId)) THEN Get(record, kRecordId)
  ELSE IF ~Falsy(Get(record, kRecordIdCamel)) THEN Get(record, kRecordIdCamel)
  ELSE Str(sUnknown)

\* the convenience keys computed from the wall clock and the record id
baseData(recordId, now) ==
  LET ms == NowMs(now)
      date == DateOfNumber(ms)
      slashed == Digits(date.y) \o <<"/">> \o Digits(date.m) \o <<"/">> \o Digits(date.d)
  IN  Obj(<<
        Entry(<<"_","r","e","c","o","r","d","_","i","d">>, recordId),
        Entry(<<"_","c","u","r","r","e","n","t","D","a","t","e">>, Str(StandardDate(date))),
        Entry(<<"_","c","u","r","r","e","n","t","D","a","t","e","_","c","h","i","n","e","s","e">>,
              Str(ChineseDate(date))),
        Entry(<<"_","c","u","r","r","e","n","t","T","i","m","e">>, Str(TimeOfDay(ms))),
        Entry(<<"_","t","i","m","e","s","t","a","m","p">>, ms),
        Entry(<<"_","y","e","a","r">>, Small(date.y)),
        Entry(<<"_","m","o","n","t","h">>, Small(date.m)),
        Entry(<<"_","d","a","y">>, Small(date.d)),
        Entry(<<"c","u","r","r","e","n","t","D","a","t","e">>, Str(slashed)),
        Entry(<<"c","u","r","r","e","n","t","D","a","t","e","_","c","h","i","n","e","s","e">>,
              Str(ChineseDate(date))),
        Entry(<<"r","e","c","o","r","d","I","d">>, recordId),
        Entry(<<"g","e","n","e","r","a","t","e","T","i","m","e">>, Str(toISOString(ms))),
        Entry(<<"y","e","a","r">>, Small(date.y)),
        Entry(<<"m","o","n","t","h">>, Small(date.m)),
        Entry(<<"d","a","y">>, Small(date.d)) >>)

\* the body of the forEach over Object.entries(fields), for one entry
EnhanceEntry(result, key, value, fieldMeta) ==
  LET meta == Lookup(fieldMeta, key)
      displayName == IF meta.t = "object" THEN Get(meta, kName)
                     ELSE IF meta.t = "function" THEN Str(meta.name)
                     ELSE Undefined
      r1 == IF ~Falsy(meta) /\ ~Falsy(displayName) /\ displayName # Str(key)
              THEN Put(result, String(displayName), value)
              ELSE result
      r2 == IF value.t \in {"object", "array"}
              THEN Put(r1, key \o sufText, formatValueByType(value, key))
              ELSE r1
      isTimestamp == value.t = "number" /\ NumGreater(value, 1000000, 0)
      date == IF isTimestamp THEN DateOfNumber(value) ELSE DateOfString(String(value))
  IN  IF (isDateField(key) \/ isTimestamp) /\ date.ok
        THEN Put(Put(r2, key \o sufFormatted, Str(StandardDate(date))),
                 key \o sufChinese, Str(ChineseDate(date)))
        ELSE r2

RECURSIVE EnhanceEntries(_, _, _)
EnhanceEntries(result, entries, fieldMeta) ==
  IF entries = <<>> THEN result
  ELSE EnhanceEntries(EnhanceEntry(result, entries[1].k, entries[1].v, fieldMeta),
                      Tail(entries), fieldMeta)

\* enhanceRecordData throws a TypeError: `'fields' in record` on a record that
\* is no object, Object.entries(fields) on fields that are null or undefined
enhanceRecordDataThrows(record) ==
  \/ record.t # "object"
  \/ getRecordFields(record).t \in {"null", "undefined"}

enhanceRecordData(record, now) ==
  LET recordId == getRecordId(record)
      fields == getRecordFields(record)
      fieldMeta == IF HasKey(record, kFieldMeta) /\ ~Falsy(Get(record, kFieldMeta))
                     THEN Get(record, kFieldMeta)
                     ELSE Obj(<<>>)
      own == IF fields.t = "object" THEN fields ELSE Obj(<<>>)
  IN  EnhanceEntries(Spread(baseData(recordId, now), own), own.entries, fieldMeta)

(***************************************************************************)
(* Template hash: 32-bit integers as two 16-bit halves                     *)
(***************************************************************************)
SampleSize == 100

Pow2 == <<1, 2, 4, 8, 16, 32, 64, 128, 256, 512, 1024, 2048, 4096, 8192, 16384, 32768>>

\* bit i of a ^ b, in place
XorBit(a, b, i) == ((((a \div Pow2[i + 1]) % 2) + ((b \div Pow2[i + 1]) % 2)) % 2) * Pow2[i + 1]

\* a ^ b of two 16-bit halves
XorBits(a, b) ==
  XorBit(a, b, 0) + XorBit(a, b, 1) + XorBit(a, b, 2) + XorBit(a, b, 3)
    + XorBit(a, b, 4) + XorBit(a, b, 5) + XorBit(a, b, 6) + XorBit(a, b, 7)
    + XorBit(a, b, 8) + XorBit(a, b, 9) + XorBit(a, b, 10) + XorBit(a, b, 11)
    + XorBit(a, b, 12) + XorBit(a, b, 13) + XorBit(a, b, 14) + XorBit(a, b, 15)

Word(hi, lo) == [hi |-> hi, lo |-> lo]

\* a ^ b
Xor32(a, b) == Word(XorBits(a.hi, b.hi), XorBits(a.lo, b.lo))

\* ToInt32(a * 31)
Mul31(a) == Word((a.hi * 31 + (a.lo * 31) \div 65536) % 65536, (a.lo * 31) % 65536)

\* dataView.getUint32(i, true), i counted from 0
getUint32(bytes, i) ==
  Word(bytes[i + 3] + 256 * bytes[i + 4], bytes[i + 1] + 256 * bytes[i + 2])

\* the inner loop over the last one to three bytes
RECURSIVE RemainingHash(_, _, _)
RemainingHash(bytes, j, acc) ==
  IF j >= Len(bytes) THEN acc
  ELSE RemainingHash(bytes, j + 1, Xor32(Mul31(acc), Word(0, bytes[j + 1])))

\* a 32-bit integer
IsInt32(w) == w.hi \in 0..65535 /\ w.lo \in 0..65535

\* the loop over the sample, four bytes at a time, from offset i on
RECURSIVE HashFrom(_, _, _)
HashFrom(bytes, i, hash) ==
  IF i >= Len(bytes) \/ ~IsInt32(hash) THEN hash
  ELSE IF i + 4 <= Len(bytes)
    THEN HashFrom(bytes, i + 4, Xor32(Mul31(hash), getUint32(bytes, i)))
    ELSE HashFrom(bytes, i + 4,
                  Xor32(Mul31(hash), RemainingHash(bytes, i, Word(0, 0))))

HexChars == <<"0","1","2","3","4","5","6","7","8","9","a","b","c","d","e","f">>

RECURSIVE Hex(_)
Hex(n) ==
  IF n < 16 THEN <<HexChars[n + 1]>>
  ELSE Hex(n \div 16) \o <<HexChars[(n % 16) + 1]>>

\* hash.toString(16) of a signed 32-bit integer
Int32ToHex(w) ==
  LET neg == w.hi >= 32768
      mag == IF ~neg THEN w
             ELSE IF w.lo = 0 THEN Word(65536 - w.hi, 0)
             ELSE Word(65535 - w.hi, 65536 - w.lo)
      digits == IF mag.hi = 0 THEN Hex(mag.lo)
                ELSE Hex(mag.hi) \o padStart(Hex(mag.lo), 4, "0")
  IN  IF neg THEN <<"-">> \o digits ELSE digits

generateTemplateHash(bytes) ==
  LET sampleSize == IF Len(bytes) < SampleSize THEN Len(bytes) ELSE SampleSize
      sample == SubSeq(bytes, 1, sampleSize)
  IN  Int32ToHex(HashFrom(sample, 0, Word(0, 0)))

(***************************************************************************)
(* Placeholder replacement in a cell text                                  *)
(***************************************************************************)
\* the position of the first "}" after position i, or 0
NextClose(s, i) ==
  IF \E j \in (i + 1)..Len(s) : s[j] = "}"
    THEN CHOOSE j \in (i + 1)..Len(s) :
           s[j] = "}" /\ \A k \in (i + 1)..(j - 1) : s[k] # "}"
    ELSE 0

\* /\{([^}]+)\}/ matches at position i
MatchAt(s, i) == s[i] = "{" /\ NextClose(s, i) >= i + 2

\* template.replace(placeholderRegex, ...) from position i on
RECURSIVE ReplaceFrom(_, _, _)
ReplaceFrom(s, i, recordData) ==
  IF i > Len(s) THEN <<>>
  ELSE IF MatchAt(s, i)
    THEN String(resolveFieldValue(SubSeq(s, i + 1, NextClose(s, i) - 1), recordData))
           \o ReplaceFrom(s, NextClose(s, i) + 1, recordData)
    ELSE <<s[i]>> \o ReplaceFrom(s, i + 1, recordData)

\* template.trim().match(/^\{([^}]+)\}$/)
IsSinglePlaceholder(s) ==
  /\ Len(trim(s)) >= 3
  /\ MatchAt(trim(s), 1)
  /\ NextClose(trim(s), 1) = Len(trim(s))

\* lines 1615-1621: the number the resolved value converts to, or the value
NumberOrValue(value) ==
  IF value.t = "string" /\ ~isNaN(Number(value)) THEN Number(value) ELSE value

replaceAllPlaceholders(template, recordData) ==
  IF /\ IsSinglePlaceholder(template)
     /\ SubSeq(trim(template), 2, Len(trim(template)) - 1) = CountField
    THEN NumberOrValue(resolveFieldValue(CountField, recordData))
    ELSE Str(ReplaceFrom(template, 1, recordData))

(***************************************************************************)
(* Template files: the bytes, and what the zip and workbook engines make   *)
(* of them                                                                 *)
(***************************************************************************)
ZipMagic == <<80, 75, 3, 4>>

\* bytes of the given length that start with prefix and end with last
Bytes(prefix, length, last) ==
  [i \in 1..length |->
     IF i <= Len(prefix) THEN prefix[i] ELSE IF i = length THEN last ELSE 0]

fName == <<"f">>

Cell(v) == [v |-> Str(v), t |-> "s", f |-> Undefined, w |-> Undefined]

Sheet(name, cells) == [name |-> name, cells |-> cells]

sSheet1 == <<"S","h","e","e","t","1">>

TemplateFile(bytes, zip, docx, tags, workbook, sheets, outSize) ==
  [bytes |-> bytes, zip |-> zip, docx |-> docx, tags |-> tags,
   workbook |-> workbook, sheets |-> sheets, outSize |-> outSize]

TemplateFiles ==
  [id \in {"empty", "docxA", "docxTwin", "docxBad", "docxBlank",
           "xlsxA", "xlsxBlank", "xlsxNoSheet"} |->
     CASE id = "empty" ->
            TemplateFile(<<>>, FALSE, FALSE, <<>>, FALSE, <<>>, 0)
       [] id = "docxA" ->
            TemplateFile(Bytes(ZipMagic, 104, 1), TRUE, TRUE, <<fName>>, FALSE, <<>>, 1)
       [] id = "docxTwin" ->
            TemplateFile(Bytes(ZipMagic, 104, 2), FALSE, FALSE, <<>>, FALSE, <<>>, 0)
       [] id = "docxBad" ->
            TemplateFile(Bytes(ZipMagic, 6, 3), TRUE, FALSE, <<>>, FALSE, <<>>, 0)
       [] id = "docxBlank" ->
            TemplateFile(Bytes(ZipMagic, 6, 4), TRUE, TRUE, <<>>, FALSE, <<>>, 0)
       [] id = "xlsxA" ->
            TemplateFile(Bytes(ZipMagic, 6, 5), TRUE, FALSE, <<>>, TRUE,
                         <<Sheet(sSheet1, <<Cell(<<"{","f","}">>)>>)>>, 1)
       [] id = "xlsxBlank" ->
            TemplateFile(Bytes(ZipMagic, 6, 6), TRUE, FALSE, <<>>, TRUE,
                         <<Sheet(sSheet1, <<>>)>>, 0)
       [] id = "xlsxNoSheet" ->
            TemplateFile(Bytes(ZipMagic, 6, 7), TRUE, FALSE, <<>>, TRUE, <<>>, 0)]

BufferIds == DOMAIN TemplateFiles

\* await generateTemplateHash(templateArrayBuffer), computed once per file
TemplateHashes == [id \in BufferIds |-> generateTemplateHash(TemplateFiles[id].bytes)]

\* `${templateName}_${templateHash}_${getRecordId(record)}`
cacheKey(templateName, id, record) ==
  templateName \o <<"_">> \o TemplateHashes[id] \o <<"_">> \o String(getRecordId(record))

(***************************************************************************)
(* The inputs of the render calls                                          *)
(***************************************************************************)
MaxCalls == 1
MaxRepeats == 1
MaxNow == 1

sR1 == <<"r","1">>
sR3 == <<"r","3">>

Record(id, fields) == Obj(<<Entry(kRecordId, Str(id)), Entry(kFields, fields)>>)

RecordA == Record(sR1, Obj(<<Entry(fName, Str(<<"A">>))>>))
RecordNoFields == Record(sR3, Null)

Records == {Null, RecordA, RecordNoFields}

\* the records of one generation request: the record ids are distinct
MaxBatch == 51

BatchRecord(k) == Record(Digits(k), Obj(<<Entry(fName, Str(<<"A">>))>>))

BatchRecords == {BatchRecord(k) : k \in 1..MaxBatch}

\* the record r1 after its field f is edited
EditedRecordA == Record(sR1, Obj(<<Entry(fName, Str(<<"B">>))>>))

\* the records of a caller that renders several times: a record, the same
\* record after an edit, and another record
SessionRecords == {RecordA, EditedRecordA, BatchRecord(2)}

TemplateTypes == {"docx", "xlsx", "pdf", ""}

sNameA == <<"a">>

TemplateNames == {Str(sNameA), Undefined}

\* toISOString() of the wall clock, computed once per reading
IsoTimes == [n \in 0..MaxNow |-> toISOString(NowMs(n))]

(***************************************************************************)
(* Errors and blobs                                                        *)
(***************************************************************************)
Error(name, message) == [t |-> "error", name |-> name, message |-> message]

\* error.message || fallback
MessageOr(error, fallback) ==
  IF error.message = <<>> THEN fallback ELSE error.message

TypeError == Error(<<"TypeError">>, <<"not an object">>)
ZipError == Error(<<"Error">>, <<"corrupted zip">>)
TemplateError == Error(<<"TemplateError">>, <<"multi error">>)
WorkbookError == Error(<<"Error">>, <<"unsupported file">>)

mimeDocx == "application/vnd.openxmlformats-officedocument.wordprocessingml.document"
mimeXlsx == "application/vnd.openxmlformats-officedocument.spreadsheetml.sheet"
mimeText == "text/plain"

\* error instanceof Error ? `${error.name}: ${error.message}` : String(error)
ErrorText(error) ==
  IF error.t = "error" THEN error.name \o <<":", " ">> \o error.message
  ELSE String(error)

\* error instanceof Error ? error.message : String(error)
ErrorMessage(error) ==
  IF error.t = "error" THEN error.message ELSE String(error)

\* the conversion of v to a string throws a TypeError: v is an object whose own
\* toString is not a function, so that neither toString nor valueOf gives a
\* primitive
ToPrimitiveThrows(v) ==
  v.t = "object" /\ HasKey(v, kToString) /\ Get(v, kToString).t # "function"

\* `${getRecordId(record)}` throws
IdTextThrows(record) == ToPrimitiveThrows(getRecordId(record))

\* String(error) is evaluated and throws
ErrorTextThrows(error) == error.t # "error" /\ ToPrimitiveThrows(error)

sReportTitle == <<"u9519","u8bef","u62a5","u544a">>
sTemplateLabel == <<"u6a21","u677f">>
sRecordIdLabel == <<"u8bb0","u5f55","I","D">>
sTimeLabel == <<"u65f6","u95f4">>
sErrorLabel == <<"u9519","u8bef","u4fe1","u606f">>

\* the texts of the paragraphs of the report document
ReportParagraphs(record, error, templateName, now) ==
  << sReportTitle,
     sTemplateLabel \o <<":", " ">> \o String(templateName),
     sRecordIdLabel \o <<":", " ">> \o String(getRecordId(record)),
     sTimeLabel \o <<":", " ">> \o IsoTimes[now],
     sErrorLabel \o <<":">>,
     ErrorText(error) >>

\* wsData, the rows of the report sheet
ReportRows(record, error, templateName, now) ==
  << <<Str(sReportTitle)>>,
     <<Str(sTemplateLabel), templateName>>,
     <<Str(sRecordIdLabel), getRecordId(record)>>,
     <<Str(sTimeLabel), Str(IsoTimes[now])>>,
     <<Str(<<>>)>>,
     <<Str(sErrorLabel)>>,
     <<Str(ErrorText(error))>> >>

\* the text of the plain-text blob
ReportText(record, error, templateName, now) ==
  sReportTitle \o <<"\n", "\n">>
    \o sTemplateLabel \o <<":", " ">> \o String(templateName) \o <<"\n">>
    \o sRecordIdLabel \o <<":", " ">> \o String(getRecordId(record)) \o <<"\n">>
    \o sTimeLabel \o <<":", " ">> \o IsoTimes[now] \o <<"\n", "\n">>
    \o sErrorLabel \o <<":", "\n">> \o ErrorMessage(error)

\* the plain-text blob both report builders fall back to
TextReport(record, error, templateName, now) ==
  [type |-> mimeText, kind |-> "text", size |-> 1,
   templateName |-> templateName, recordId |-> String(getRecordId(record)),
   time |-> IsoTimes[now], message |-> ErrorMessage(error)]

\* packerOk: Packer.toBuffer returns; otherwise it throws
createErrorReportDoc(record, error, templateName, now, packerOk) ==
  IF packerOk
    THEN [type |-> mimeDocx, kind |-> "report", size |-> 1,
          templateName |-> templateName, recordId |-> String(getRecordId(record)),
          time |-> IsoTimes[now],
          message |-> ErrorText(error)]
    ELSE TextReport(record, error, templateName, now)

\* writeOk: XLSX.write returns; otherwise it throws
createErrorReportWorkbook(record, error, templateName, now, writeOk) ==
  IF writeOk
    THEN [type |-> mimeXlsx, kind |-> "report", size |-> 1,
          templateName |-> templateName, recordId |-> String(getRecordId(record)),
          time |-> IsoTimes[now],
          message |-> ErrorText(error)]
    ELSE TextReport(record, error, templateName, now)

\* createErrorReportDoc rejects: a template literal of the try block throws
\* and the same literal throws again in the catch block
createErrorReportDocThrows(record, error) ==
  IdTextThrows(record) \/ ErrorTextThrows(error)

\* createErrorReportWorkbook rejects: the try block throws at String(error) or
\* in XLSX.write, and a template literal of the catch block throws
createErrorReportWorkbookThrows(record, error, writeOk) ==
  \/ ErrorTextThrows(error)
  \/ ~writeOk /\ IdTextThrows(record)

(***************************************************************************)
(* Renderers.  A call is one step; its result says whether it threw, the   *)
(* value returned or thrown, the cache it leaves, how many times it called *)
(* the zip or workbook engine and whether the cache served it.             *)
(***************************************************************************)
Result(threw, value, cache, engine, hit) ==
  [threw |-> threw, value |-> value, cache |-> cache, engine |-> engine, hit |-> hit]

pProcess == <<"template processing failed: ">>
pParseDocx == <<"cannot parse DocX: ">>
sUnknownError == <<"unknown error">>

\* doc.render(processedRecord): the text each tag is replaced by, through the
\* parser of lines 1873-1881
RenderTags(tags, processedRecord) ==
  [i \in 1..Len(tags) |-> String(resolveFieldValue(tags[i], processedRecord))]

\* doc.render(processedRecord) and doc.getZip().generate(...)
RenderedDocx(id, processedRecord) ==
  [type |-> mimeDocx, kind |-> "rendered", size |-> TemplateFiles[id].outSize,
   source |-> id,
   parts |-> RenderTags(TemplateFiles[id].tags, processedRecord)]

\* the records enhanceRecordData accepts
Renderable ==
  {record \in Records \cup BatchRecords \cup SessionRecords :
     ~enhanceRecordDataThrows(record)}

\* the rendered document per file, record and clock reading, computed once
DocxOutputs ==
  [id \in BufferIds, record \in Renderable, n \in 0..MaxNow |->
     RenderedDocx(id, enhanceRecordData(record, n))]

\* a cache that never has the key
hasNot(cache, key) == FALSE

\* docxTemplateCache.has(cacheKey), xlsxTemplateCache.has(cacheKey)
has(cache, key) == HasKey(cache, key)

\* lines 1898-1900: the output is stored when it is not empty
StoreDocx(cache, key, output) ==
  IF output.size > 0 THEN Put(cache, key, output) ELSE cache

processDocxTemplate(id, record, templateName, now, packerOk, cache) ==
  IF enhanceRecordDataThrows(record)
    THEN Result(TRUE, Error(<<"Error">>, pProcess \o MessageOr(TypeError, sUnknownError)),
                cache, 0, FALSE)
  ELSE IF has(cache, cacheKey(templateName, id, record))
    THEN Result(FALSE, Get(cache, cacheKey(templateName, id, record)), cache, 0, TRUE)
  ELSE IF ~TemplateFiles[id].zip
    THEN Result(TRUE,
                Error(<<"Error">>,
                      pProcess \o pParseDocx \o MessageOr(ZipError, sUnknownError)),
                cache, 1, FALSE)
  ELSE IF ~TemplateFiles[id].docx
    THEN Result(FALSE,
                createErrorReportDoc(record, TemplateError, templateName, now, packerOk),
                cache, 2, FALSE)
  ELSE Result(FALSE, DocxOutputs[id, record, now],
              StoreDocx(cache, cacheKey(templateName, id, record),
                        DocxOutputs[id, record, now]),
              2, FALSE)

sCountPlaceholder == <<"{">> \o CountField \o <<"}">>

\* the value written to the cell for the text newValue
CellValue(originalValue, newValue) ==
  IF newValue.t = "number" THEN newValue
  ELSE IF includes(originalValue.s, sCountPlaceholder) /\ ~isNaN(Number(newValue))
    THEN Number(newValue)
  ELSE newValue

\* the cell with the text of newValue written to it as its formula
WriteFormula(cell, newValue, v) ==
  [v |-> v,
   t |-> IF v.t = "number" THEN "n" ELSE cell.t,
   f |-> IF ~Falsy(cell.f) THEN Str(String(newValue)) ELSE cell.f,
   w |-> cell.w]

\* the cell with the value v written to it
WriteCell(cell, newValue, v) ==
  [v |-> v,
   t |-> IF v.t = "number" THEN "n" ELSE cell.t,
   f |-> cell.f,
   w |-> IF ~Falsy(cell.f) THEN Str(String(newValue)) ELSE cell.w]

\* the cell after its placeholders are replaced by newValue
UpdateCell(cell, newValue) ==
  IF cell.v.t = "string" /\ newValue # cell.v
    THEN WriteCell(cell, newValue, CellValue(cell.v, newValue))
    ELSE cell

\* the body of the loop over the cells of Sheet1, for one cell
ProcessCell(cell, processedRecord) ==
  UpdateCell(cell, replaceAllPlaceholders(cell.v.s, processedRecord))

\* lines 1972-2058: the sheets of the workbook after the cells of Sheet1 are
\* processed
RenderSheets(sheets, processedRecord) ==
  [i \in 1..Len(sheets) |->
     IF sheets[i].name = sSheet1
       THEN Sheet(sheets[i].name,
                  [c \in 1..Len(sheets[i].cells) |->
                     ProcessCell(sheets[i].cells[c], processedRecord)])
       ELSE sheets[i]]

\* XLSX.write of the workbook after the cells of Sheet1 are processed
RenderedXlsx(id, processedRecord) ==
  [type |-> mimeXlsx, kind |-> "rendered", size |-> TemplateFiles[id].outSize,
   source |-> id,
   sheets |-> RenderSheets(TemplateFiles[id].sheets, processedRecord)]

sEmptyXlsx == <<"Excel template is empty or unreadable">>
sNoWorkbook == <<"cannot parse Excel workbook">>

\* the rendered workbook per file, record and clock reading, computed once
XlsxOutputs ==
  [id \in BufferIds, record \in Renderable, n \in 0..MaxNow |->
     RenderedXlsx(id, enhanceRecordData(record, n))]

\* the blob is stored whatever its size
StoreAll(cache, key, blob) == Put(cache, key, blob)

\* lines 2066-2068: the blob is stored when it is not empty
StoreXlsx(cache, key, blob) ==
  IF blob.size > 0 THEN Put(cache, key, blob) ELSE cache

\* a catch block that also keeps its report in the cache
StoredReport(record, error, templateName, now, writeOk, cache, engine) ==
  Result(FALSE, createErrorReportWorkbook(record, error, templateName, now, writeOk),
         Put(cache, templateName,
             createErrorReportWorkbook(record, error, templateName, now, writeOk)),
         engine, FALSE)

\* the catch block of processXlsxTemplate, lines 2073-2079
XlsxReport(record, error, templateName, now, writeOk, cache, engine) ==
  Result(FALSE, createErrorReportWorkbook(record, error, templateName, now, writeOk),
         cache, engine, FALSE)

processXlsxTemplate(id, record, templateName, now, writeOk, cache) ==
  IF enhanceRecordDataThrows(record)
    THEN XlsxReport(record, TypeError, templateName, now, writeOk, cache, 0)
  ELSE IF has(cache, cacheKey(templateName, id, record))
    THEN Result(FALSE, Get(cache, cacheKey(templateName, id, record)), cache, 0, TRUE)
  ELSE IF Len(TemplateFiles[id].bytes) = 0
    THEN XlsxReport(record, Error(<<"Error">>, sEmptyXlsx), templateName, now, writeOk,
                    cache, 0)
  ELSE IF ~TemplateFiles[id].workbook
    THEN XlsxReport(record, WorkbookError, templateName, now, writeOk, cache, 1)
  ELSE IF Len(TemplateFiles[id].sheets) = 0
    THEN XlsxReport(record, Error(<<"Error">>, sNoWorkbook), templateName, now, writeOk,
                    cache, 1)
  ELSE Result(FALSE, XlsxOutputs[id, record, now],
              StoreXlsx(cache, cacheKey(templateName, id, record),
                        XlsxOutputs[id, record, now]),
              2, FALSE)

(***************************************************************************)
(* Dispatcher                                                              *)
(***************************************************************************)
sEmptyTemplate == <<"template content is empty">>
sNoType == <<"template type not given">>
sNoRecord == <<"record data is empty">>
pUnsupported == <<"unsupported template type: ">>
pTemplate == <<"t","e","m","p","l","a","t","e","-">>

\* the result of processTemplate, with both caches; id "missing" is an absent
\* buffer, templateType "" an absent type
Outcome(threw, value, engine, hit, docx, xlsx) ==
  [threw |-> threw, value |-> value, engine |-> engine, hit |-> hit,
   docx |-> docx, xlsx |-> xlsx]

\* lines 2148-2154: processDocxTemplate returned or threw viaDocx
DocxGuarded(viaDocx, record, effectiveTemplateName, now, reportOk, docx, xlsx) ==
  IF viaDocx.threw
    THEN Outcome(FALSE,
                 createErrorReportDoc(record, viaDocx.value, effectiveTemplateName,
                                      now, reportOk),
                 viaDocx.engine, FALSE, docx, xlsx)
    ELSE Outcome(FALSE, viaDocx.value, viaDocx.engine, viaDocx.hit, viaDocx.cache, xlsx)

\* lines 2156-2162: processXlsxTemplate returned or threw viaXlsx
XlsxGuarded(viaXlsx, record, effectiveTemplateName, now, reportOk, docx, xlsx) ==
  IF viaXlsx.threw
    THEN Outcome(FALSE,
                 createErrorReportWorkbook(record, viaXlsx.value, effectiveTemplateName,
                                           now, reportOk),
                 viaXlsx.engine, FALSE, docx, xlsx)
    ELSE Outcome(FALSE, viaXlsx.value, viaXlsx.engine, viaXlsx.hit, docx, viaXlsx.cache)

\* the try block of processTemplate
processTemplateTry(id, templateType, record, templateName, now, reportOk, docx, xlsx) ==
  LET effectiveTemplateName ==
        IF Falsy(templateName) THEN pTemplate \o NumToStr(NowMs(now))
        ELSE String(templateName)
      Throw(message) == Outcome(TRUE, Error(<<"Error">>, message), 0, FALSE, docx, xlsx)
  IN  IF id = "missing" \/ Len(TemplateFiles[id].bytes) = 0 THEN Throw(sEmptyTemplate)
      ELSE IF templateType = "" THEN Throw(sNoType)
      ELSE IF Falsy(record) THEN Throw(sNoRecord)
      ELSE IF templateType = "docx"
        THEN DocxGuarded(processDocxTemplate(id, record, effectiveTemplateName, now,
                                             reportOk, docx),
                         record, effectiveTemplateName, now, reportOk, docx, xlsx)
      ELSE IF templateType = "xlsx"
        THEN XlsxGuarded(processXlsxTemplate(id, record, effectiveTemplateName, now,
                                             reportOk, xlsx),
                         record, effectiveTemplateName, now, reportOk, docx, xlsx)
      ELSE Throw(pUnsupported \o <<templateType>>)

\* the catch block of processTemplate: a report document for what the try
\* block threw
processTemplateCatch(tried, record, templateName, now, reportOk) ==
  IF tried.threw
    THEN Outcome(FALSE,
                 createErrorReportDoc(record, tried.value,
                                      IF Falsy(templateName) THEN sUnknown
                                      ELSE String(templateName),
                                      now, reportOk),
                 tried.engine, FALSE, tried.docx, tried.xlsx)
    ELSE tried

\* what the renderer threw, when it threw, and the result of the try block
\* otherwise
Rethrown(tried, templateType, viaDocx, docx, xlsx) ==
  IF ~tried.threw /\ templateType = "docx" /\ viaDocx.threw
    THEN Outcome(TRUE, viaDocx.value, viaDocx.engine, FALSE, docx, xlsx)
    ELSE tried

\* processTemplate without its try blocks: what the renderer throws reaches the
\* caller
processTemplateUnguarded(id, templateType, record, templateName, now, reportOk, docx, xlsx) ==
  Rethrown(processTemplateTry(id, templateType, record, templateName, now,
                              reportOk, docx, xlsx),
           templateType,
           processDocxTemplate(id, record,
                               IF Falsy(templateName)
                                 THEN pTemplate \o NumToStr(NowMs(now))
                                 ELSE String(templateName),
                               now, reportOk, docx),
           docx, xlsx)

processTemplate(id, templateType, record, templateName, now, reportOk, docx, xlsx) ==
  processTemplateCatch(processTemplateTry(id, templateType, record, templateName, now,
                                          reportOk, docx, xlsx),
                       record, templateName, now, reportOk)

(***************************************************************************)
(* The render calls as a state machine.  A caller makes a call with        *)
(* arguments of its choice, or makes the call it made last once more.      *)
(***************************************************************************)
VARIABLES
  docxTemplateCache,  \* Map of cache key -> blob, in insertion order
  xlsxTemplateCache,  \* Map of cache key -> blob, in insertion order
  now,                \* milliseconds the wall clock has advanced
  calls,              \* number of calls made with arguments chosen afresh
  repeats,            \* number of calls made with the arguments of the last call
  call,               \* the last call: its arguments and how it ended
  writerOk,           \* Packer.toBuffer and XLSX.write of a report return; otherwise they throw
  resolve,            \* a call of resolveFieldValue: its arguments and its result
  enhanced,           \* a call of enhanceRecordData: its argument and its result
  filled,             \* a template content filled in for a record
  report,             \* a call of a report builder: its arguments and its result
  format,             \* a call of formatValueByType on a value of the heap, as it recurses
  tasks               \* the render calls under way on the event loop

vars ==
  <<docxTemplateCache, xlsxTemplateCache, now, calls, repeats, call, writerOk, resolve,
    enhanced, filled, report, format, tasks>>

\* the variables of the calls studied on their own
aside == <<enhanced, filled, report, format, tasks>>

\* no such call is under way
NoJob == [done |-> FALSE]

Idle ==
  /\ enhanced = NoJob
  /\ filled = NoJob
  /\ report = NoJob
  /\ format = NoJob
  /\ tasks = <<>>

\* no call of resolveFieldValue is under way
NoResolve == [fieldName |-> <<>>, recordData |-> Obj(<<>>), done |-> FALSE, value |-> Undefined]

NoBlob == [type |-> "", kind |-> "none", size |-> 0]

NoBefore == [threw |-> FALSE, value |-> NoBlob]

NoCall ==
  [fn |-> "none", id |-> "missing", templateType |-> "", record |-> Null,
   templateName |-> Undefined, threw |-> FALSE, value |-> NoBlob,
   engine |-> 0, hit |-> FALSE, again |-> FALSE, before |-> NoBefore]

\* the call just made; again says that it repeats the call before it, and
\* before is how that call ended
Called(fn, id, templateType, record, templateName, out, again) ==
  [fn |-> fn, id |-> id, templateType |-> templateType, record |-> record,
   templateName |-> templateName, threw |-> out.threw, value |-> out.value,
   engine |-> out.engine, hit |-> out.hit, again |-> again,
   before |-> IF again THEN [threw |-> call.threw, value |-> call.value]
              ELSE NoBefore]

Init ==
  /\ docxTemplateCache = Obj(<<>>)
  /\ xlsxTemplateCache = Obj(<<>>)
  /\ now = 0
  /\ calls = 0
  /\ repeats = 0
  /\ call = NoCall
  /\ writerOk \in BOOLEAN
  /\ resolve = NoResolve
  /\ Idle

\* the wall clock advances by a millisecond
Tick ==
  /\ now < MaxNow
  /\ now' = now + 1
  /\ UNCHANGED <<docxTemplateCache, xlsxTemplateCache, calls, repeats, call, writerOk, resolve, aside>>

\* await processTemplate(templateArrayBuffer, templateType, record, templateName)
CallProcessTemplate(id, templateType, record, templateName, again) ==
  \E out \in {processTemplate(id, templateType, record, templateName, now, writerOk,
                              docxTemplateCache, xlsxTemplateCache)} :
    /\ docxTemplateCache' = out.docx
    /\ xlsxTemplateCache' = out.xlsx
    /\ call' = Called("processTemplate", id, templateType, record, templateName,
                      out, again)
    /\ UNCHANGED <<now, writerOk, resolve, aside>>

\* await processDocxTemplate(templateArrayBuffer, record, templateName)
CallProcessDocxTemplate(id, record, templateName, again) ==
  \E out \in {processDocxTemplate(id, record, String(templateName), now, writerOk,
                                  docxTemplateCache)} :
    /\ docxTemplateCache' = out.cache
    /\ call' = Called("processDocxTemplate", id, "docx", record, templateName,
                      out, again)
    /\ UNCHANGED <<xlsxTemplateCache, now, writerOk, resolve, aside>>

\* await processXlsxTemplate(templateArrayBuffer, record, templateName)
CallProcessXlsxTemplate(id, record, templateName, again) ==
  \E out \in {processXlsxTemplate(id, record, String(templateName), now, writerOk,
                                  xlsxTemplateCache)} :
    /\ xlsxTemplateCache' = out.cache
    /\ call' = Called("processXlsxTemplate", id, "xlsx", record, templateName,
                      out, again)
    /\ UNCHANGED <<docxTemplateCache, now, writerOk, resolve, aside>>

ProcessTemplate ==
  /\ calls < MaxCalls
  /\ calls' = calls + 1
  /\ UNCHANGED repeats
  /\ \E id \in BufferIds \cup {"missing"}, templateType \in TemplateTypes,
        record \in Records, templateName \in TemplateNames :
       CallProcessTemplate(id, templateType, record, templateName, FALSE)

ProcessDocxTemplate ==
  /\ calls < MaxCalls
  /\ calls' = calls + 1
  /\ UNCHANGED repeats
  /\ \E id \in BufferIds, record \in Records :
       CallProcessDocxTemplate(id, record, Str(sNameA), FALSE)

ProcessXlsxTemplate ==
  /\ calls < MaxCalls
  /\ calls' = calls + 1
  /\ UNCHANGED repeats
  /\ \E id \in BufferIds, record \in Records :
       CallProcessXlsxTemplate(id, record, Str(sNameA), FALSE)

Next == Tick \/ ProcessTemplate \/ ProcessDocxTemplate \/ ProcessXlsxTemplate

Spec == Init /\ [][Next]_vars

\* the first call of a caller
FirstCall ==
  /\ call.fn = "none"
  /\ ProcessTemplate \/ ProcessDocxTemplate \/ ProcessXlsxTemplate

\* the last call once more, with the same arguments
RepeatProcessTemplate ==
  /\ repeats < MaxRepeats
  /\ call.fn = "processTemplate"
  /\ repeats' = repeats + 1
  /\ UNCHANGED calls
  /\ CallProcessTemplate(call.id, call.templateType, call.record, call.templateName, TRUE)

RepeatProcessDocxTemplate ==
  /\ repeats < MaxRepeats
  /\ call.fn = "processDocxTemplate"
  /\ repeats' = repeats + 1
  /\ UNCHANGED calls
  /\ CallProcessDocxTemplate(call.id, call.record, call.templateName, TRUE)

RepeatProcessXlsxTemplate ==
  /\ repeats < MaxRepeats
  /\ call.fn = "processXlsxTemplate"
  /\ repeats' = repeats + 1
  /\ UNCHANGED calls
  /\ CallProcessXlsxTemplate(call.id, call.record, call.templateName, TRUE)

NextRepeat ==
  \/ Tick
  \/ FirstCall
  \/ RepeatProcessTemplate
  \/ RepeatProcessDocxTemplate
  \/ RepeatProcessXlsxTemplate

\* a caller that makes one call and then repeats it
SpecRepeat == Init /\ [][NextRepeat]_vars

\* the body of the loop over the records of a generation request: one document
\* per record, all from the template and of the type of the request
GenerateDocument ==
  /\ calls < MaxBatch
  /\ calls' = calls + 1
  /\ UNCHANGED repeats
  /\ \E templateType \in IF call.fn = "none" THEN {"docx", "xlsx"}
                         ELSE {call.templateType} :
       CallProcessTemplate(IF templateType = "docx" THEN "docxA" ELSE "xlsxA",
                           templateType, BatchRecord(calls + 1), Str(sNameA), FALSE)

NextBatch == GenerateDocument

\* generation requests over records with distinct ids
SpecBatch == Init /\ [][NextBatch]_vars

(***************************************************************************)
(* A caller that renders up to MaxRenders times, one call after another,   *)
(* with any template, template name and record each time; every call      *)
(* keeps the arguments and the end of the call before it                   *)
(***************************************************************************)
MaxRenders == 3

sNameB == <<"b">>

SessionNames == {Str(sNameA), Str(sNameB)}

SessionDocxIds == {"docxA", "docxTwin", "docxBad"}

SessionXlsxIds == {"xlsxA", "xlsxNoSheet"}

\* the call just made, with the call before it
CalledAfter(fn, id, templateType, record, templateName, out) ==
  [Called(fn, id, templateType, record, templateName, out, FALSE)
     EXCEPT !.before = [call EXCEPT !.before = NoBefore]]

\* await processDocxTemplate(templateArrayBuffer, record, templateName)
RenderDocx ==
  /\ calls < MaxRenders
  /\ calls' = calls + 1
  /\ \E id \in SessionDocxIds, record \in SessionRecords, templateName \in SessionNames :
       \E out \in {processDocxTemplate(id, record, String(templateName), now, writerOk,
                                       docxTemplateCache)} :
         /\ docxTemplateCache' = out.cache
         /\ call' = CalledAfter("processDocxTemplate", id, "docx", record,
                                templateName, out)
  /\ UNCHANGED <<xlsxTemplateCache, now, repeats, writerOk, resolve, aside>>

\* await processXlsxTemplate(templateArrayBuffer, record, templateName)
RenderXlsx ==
  /\ calls < MaxRenders
  /\ calls' = calls + 1
  /\ \E id \in SessionXlsxIds, record \in SessionRecords, templateName \in SessionNames :
       \E out \in {processXlsxTemplate(id, record, String(templateName), now, writerOk,
                                       xlsxTemplateCache)} :
         /\ xlsxTemplateCache' = out.cache
         /\ call' = CalledAfter("processXlsxTemplate", id, "xlsx", record,
                                templateName, out)
  /\ UNCHANGED <<docxTemplateCache, now, repeats, writerOk, resolve, aside>>

NextSession == RenderDocx \/ RenderXlsx

SpecSession == Init /\ [][NextSession]_vars

(***************************************************************************)
(* The placeholder resolver on its own: a placeholder name and a context   *)
(* of at most MaxKeys entries, in any order                                *)
(***************************************************************************)
MaxKeys == 2

sDate == <<"d","a","t","e">>
sProjectName == <<"p","r","o","j","e","c","t"," ","n","a","m","e">>
sProjectNameTitle == <<"P","r","o","j","e","c","t"," ","N","a","m","e">>

FieldNames == {sDate, sProjectName, fName, CountField, kConstructor}

\* the entries a context is made of; the values tell the entries apart
ContextEntries ==
  { Entry(sDate, Str(<<"2","0","2","4","-","0","1","-","0","5">>)),
    Entry(sDate \o sufText, Str(<<"T">>)),
    Entry(sDate \o sufChinese, Str(<<"C">>)),
    Entry(sDate \o sufFormatted, Str(<<"F">>)),
    Entry(<<"D","a","t","e">>, Str(<<"D">>)),
    Entry(<<"D","A","T","E","_","T","E","X","T">>, Str(<<"U","T">>)),
    Entry(<<"m","y","D","a","t","e","_","C","h","i","n","e","s","e">>, Str(<<"U","C">>)),
    Entry(<<"D","a","t","e","_","F","o","r","m","a","t","t","e","d">>, Str(<<"U","F">>)),
    Entry(sProjectNameTitle, Str(<<"P">>)),
    Entry(CountField, Str(<<"5">>)),
    Entry(fName, Str(<<"7">>)),
    Entry(fName, Null) }

\* the contexts: sequences of entries with distinct keys
Contexts ==
  UNION { { Obj(entries) : entries \in
              { e \in [1..n -> ContextEntries] :
                  \A i, j \in 1..n : i # j => e[i].k # e[j].k } } : n \in 0..MaxKeys }

InitResolve ==
  /\ docxTemplateCache = Obj(<<>>)
  /\ xlsxTemplateCache = Obj(<<>>)
  /\ now = 0
  /\ calls = 0
  /\ repeats = 0
  /\ call = NoCall
  /\ writerOk = TRUE
  /\ Idle
  /\ \E fieldName \in FieldNames, recordData \in Contexts :
       resolve = [fieldName |-> fieldName, recordData |-> recordData,
                  done |-> FALSE, value |-> Undefined]

\* resolveFieldValue(fieldName, recordData) returns
ResolveFieldValue ==
  /\ ~resolve.done
  /\ resolve' = [resolve EXCEPT !.done = TRUE,
                                !.value = resolveFieldValue(resolve.fieldName,
                                                            resolve.recordData)]
  /\ UNCHANGED <<docxTemplateCache, xlsxTemplateCache, now, calls, repeats, call, writerOk, aside>>

NextResolve == ResolveFieldValue

SpecResolve == InitResolve /\ [][NextResolve]_vars

(***************************************************************************)
(* Filling in a template on its own: the tags of a document and the cells  *)
(* of a workbook, for the context of a record                              *)
(***************************************************************************)
sZz == <<"z","z">>
sData == <<"D","a","t","a">>
sFormula == <<"S","U","M","(","A","1",":","A","2",")">>

Placeholder(name) == <<"{">> \o name \o <<"}">>

\* a cell text and the tags docxtemplater finds in the same text
FillTexts ==
  { [text |-> Placeholder(fName), tags |-> <<fName>>],
    [text |-> Placeholder(sZz), tags |-> <<sZz>>],
    [text |-> <<"a">> \o Placeholder(fName) \o <<"b">> \o Placeholder(sZz) \o <<"c">>,
     tags |-> <<fName, sZz>>],
    [text |-> Placeholder(kConstructor), tags |-> <<kConstructor>>],
    [text |-> Placeholder(CountField), tags |-> <<CountField>>],
    [text |-> <<" ">> \o Placeholder(CountField) \o <<" ">>, tags |-> <<CountField>>],
    [text |-> <<"n","=">> \o Placeholder(CountField), tags |-> <<CountField>>],
    [text |-> Placeholder(CountField) \o Placeholder(sZz), tags |-> <<CountField, sZz>>] }

\* a cell with the text v, bound to the formula f or to none
CellOf(v, f) == [v |-> Str(v), t |-> "s", f |-> f, w |-> Str(v)]

\* the workbooks with the cell in Sheet1, in a second sheet, or in both
Workbooks(cell) ==
  { <<Sheet(sSheet1, <<cell>>)>>,
    <<Sheet(sSheet1, <<cell>>), Sheet(sData, <<cell>>)>>,
    <<Sheet(sData, <<cell>>)>> }

\* records with and without a value of the count field
FillRecords ==
  { Record(sR1, Obj(<<Entry(fName, Str(<<"A">>))>>)),
    Record(sR1, Obj(<<Entry(fName, Str(<<"A">>)), Entry(CountField, Str(<<"4","2">>))>>)),
    Record(sR1, Obj(<<Entry(fName, Str(<<"A">>)), Entry(CountField, Small(42))>>)),
    Record(sR1, Obj(<<Entry(fName, Str(<<"A">>)), Entry(CountField, Str(<<"n","o">>))>>)) }

InitFill ==
  /\ docxTemplateCache = Obj(<<>>)
  /\ xlsxTemplateCache = Obj(<<>>)
  /\ now = 0
  /\ calls = 0
  /\ repeats = 0
  /\ call = NoCall
  /\ writerOk = TRUE
  /\ resolve = NoResolve
  /\ enhanced = NoJob
  /\ report = NoJob
  /\ format = NoJob
  /\ tasks = <<>>
  /\ \E content \in FillTexts, f \in {Undefined, Str(sFormula)}, record \in FillRecords :
       \E sheets \in Workbooks(CellOf(content.text, f)) :
         filled = [tags |-> content.tags, sheets |-> sheets, record |-> record,
                   done |-> FALSE]

\* the substitution step of both renderers: doc.render(processedRecord) and the
\* loop over the cells
Fill ==
  /\ ~filled.done
  /\ \E processedRecord \in {enhanceRecordData(filled.record, now)} :
       filled' = [tags |-> filled.tags, sheets |-> filled.sheets,
                  record |-> filled.record, done |-> TRUE,
                  processedRecord |-> processedRecord,
                  parts |-> RenderTags(filled.tags, processedRecord),
                  out |-> RenderSheets(filled.sheets, processedRecord)]
  /\ UNCHANGED <<docxTemplateCache, xlsxTemplateCache, now, calls, repeats, call,
                 writerOk, resolve, enhanced, report, format, tasks>>

NextFill == Fill

SpecFill == InitFill /\ [][NextFill]_vars

(***************************************************************************)
(* The rendering context on its own: records of at most MaxFields fields,  *)
(* with or without field metadata, wrapped in `fields` or flat             *)
(***************************************************************************)
MaxFields == 2

sA == <<"a">>
sB == <<"b">>

\* the fields a record is made of
FieldEntries ==
  { Entry(fName, Str(<<"A">>)),
    Entry(sA, Obj(<<Entry(kText, Str(<<"x">>))>>)),
    Entry(sA \o sufText, Str(<<"o","r","i","g">>)),
    Entry(sB, Str(<<"B">>)),
    Entry(sDate, Str(<<"2","0","2","4","-","0","1","-","0","5">>)),
    Entry(sDate \o sufFormatted, Str(<<"k","e","e","p">>)),
    Entry(<<"y","e","a","r">>, Str(<<"Y">>)) }

FieldSets ==
  UNION { { Obj(entries) : entries \in
              { e \in [1..n -> FieldEntries] :
                  \A i, j \in 1..n : i # j => e[i].k # e[j].k } } : n \in 0..MaxFields }

\* field metadata: none, a display name of its own, the name of another field
FieldMetas ==
  { Undefined,
    Obj(<<Entry(fName, Obj(<<Entry(kName, Str(<<"F">>))>>))>>),
    Obj(<<Entry(fName, Obj(<<Entry(kName, Str(sB))>>))>>) }

\* a record: { record_id, fields, fieldMeta } or the fields themselves
EnhanceRecord(fields, fieldMeta, wrapped) ==
  IF ~wrapped THEN fields
  ELSE IF fieldMeta = Undefined THEN Record(sR1, fields)
  ELSE Obj(<<Entry(kRecordId, Str(sR1)), Entry(kFields, fields),
             Entry(kFieldMeta, fieldMeta)>>)

InitEnhance ==
  /\ docxTemplateCache = Obj(<<>>)
  /\ xlsxTemplateCache = Obj(<<>>)
  /\ now = 0
  /\ calls = 0
  /\ repeats = 0
  /\ call = NoCall
  /\ writerOk = TRUE
  /\ resolve = NoResolve
  /\ filled = NoJob
  /\ report = NoJob
  /\ format = NoJob
  /\ tasks = <<>>
  /\ \E fields \in FieldSets, fieldMeta \in FieldMetas, wrapped \in BOOLEAN :
       /\ ~wrapped => fieldMeta = Undefined
       /\ enhanced = [record |-> EnhanceRecord(fields, fieldMeta, wrapped),
                      done |-> FALSE]

\* enhanceRecordData(record) returns
EnhanceRecordData ==
  /\ ~enhanced.done
  /\ enhanced' = [record |-> enhanced.record, done |-> TRUE,
                  context |-> enhanceRecordData(enhanced.record, now)]
  /\ UNCHANGED <<docxTemplateCache, xlsxTemplateCache, now, calls, repeats, call,
                 writerOk, resolve, filled, report, format, tasks>>

NextEnhance == EnhanceRecordData

SpecEnhance == InitEnhance /\ [][NextEnhance]_vars

(***************************************************************************)
(* The report builders on their own: any record value, any error value,    *)
(* the document or workbook engine returning or throwing                   *)
(***************************************************************************)
sBoom == <<"b","o","o","m">>

\* an object whose own toString is not a function, as JSON.parse gives for
\* {"toString": 1}
Unprintable == Obj(<<Entry(kToString, Small(1))>>)

ReportRecords ==
  { Null,
    Str(sR1),
    Obj(<<>>),
    RecordA,
    Obj(<<Entry(kRecordIdCamel, Str(sR1)), Entry(fName, Str(<<"A">>))>>),
    Obj(<<Entry(kRecordId, Small(7))>>),
    Obj(<<Entry(kRecordId, Obj(<<>>))>>),
    Obj(<<Entry(kRecordId, Unprintable)>>) }

ReportErrors ==
  { ZipError, TypeError, Error(<<"Error">>, <<>>), Str(sBoom), Undefined, Null,
    Small(5), Obj(<<>>), Unprintable }

InitReport ==
  /\ docxTemplateCache = Obj(<<>>)
  /\ xlsxTemplateCache = Obj(<<>>)
  /\ now \in 0..MaxNow
  /\ calls = 0
  /\ repeats = 0
  /\ call = NoCall
  /\ writerOk \in BOOLEAN
  /\ resolve = NoResolve
  /\ enhanced = NoJob
  /\ filled = NoJob
  /\ format = NoJob
  /\ tasks = <<>>
  /\ \E family \in {"docx", "xlsx"}, record \in ReportRecords, error \in ReportErrors,
        templateName \in TemplateNames :
       report = [family |-> family, record |-> record, error |-> error,
                 templateName |-> templateName, done |-> FALSE]

\* what a report call leaves: it rejected, or it returned value with content
Rejected(job) ==
  [family |-> job.family, record |-> job.record, error |-> job.error,
   templateName |-> job.templateName, done |-> TRUE, threw |-> TRUE,
   value |-> TypeError, content |-> <<>>]

Returned(job, value, content) ==
  [family |-> job.family, record |-> job.record, error |-> job.error,
   templateName |-> job.templateName, done |-> TRUE, threw |-> FALSE,
   value |-> value, content |-> content]

\* createErrorReportDoc(record, error, templateName) settles; writerOk says
\* whether Packer.toBuffer returns
CreateErrorReportDoc ==
  /\ ~report.done
  /\ report.family = "docx"
  /\ report' =
       IF createErrorReportDocThrows(report.record, report.error)
         THEN Rejected(report)
         ELSE Returned(report,
                createErrorReportDoc(report.record, report.error, report.templateName,
                                     now, writerOk),
                IF writerOk
                  THEN ReportParagraphs(report.record, report.error,
                                        report.templateName, now)
                  ELSE <<ReportText(report.record, report.error,
                                    report.templateName, now)>>)
  /\ UNCHANGED <<docxTemplateCache, xlsxTemplateCache, now, calls, repeats, call,
                 writerOk, resolve, enhanced, filled, format, tasks>>

\* createErrorReportWorkbook(record, error, templateName) settles; writerOk says
\* whether XLSX.write returns
CreateErrorReportWorkbook ==
  /\ ~report.done
  /\ report.family = "xlsx"
  /\ report' =
       IF createErrorReportWorkbookThrows(report.record, report.error, writerOk)
         THEN Rejected(report)
         ELSE Returned(report,
                createErrorReportWorkbook(report.record, report.error,
                                          report.templateName, now, writerOk),
                IF writerOk
                  THEN ReportRows(report.record, report.error, report.templateName, now)
                  ELSE <<ReportText(report.record, report.error,
                                    report.templateName, now)>>)
  /\ UNCHANGED <<docxTemplateCache, xlsxTemplateCache, now, calls, repeats, call,
                 writerOk, resolve, enhanced, filled, format, tasks>>

NextReport == CreateErrorReportDoc \/ CreateErrorReportWorkbook

SpecReport == InitReport /\ [][NextReport]_vars

(***************************************************************************)
(* Concurrent render calls: Promise.all over the records of a request      *)
(* starts one call per record, all for one template.  A step of a call     *)
(* runs from one await to the next; the event loop picks any call that can *)
(* continue.                                                               *)
(***************************************************************************)
MaxTasks == 2

\* const batchSize = 50
BatchSize == 50

BlankCell == [v |-> Undefined, t |-> "z", f |-> Undefined, w |-> Undefined]

\* a Sheet1 whose range has one cell more than a batch, the first and the
\* last one a placeholder
WideSheet ==
  Sheet(sSheet1,
        [c \in 1..(BatchSize + 1) |->
           IF c \in {1, BatchSize + 1} THEN Cell(<<"{","f","}">>) ELSE BlankCell])

AsyncFiles ==
  [id \in {"docxA", "xlsxA", "xlsxWide"} |->
     IF id = "xlsxWide"
       THEN TemplateFile(Bytes(ZipMagic, 6, 8), TRUE, FALSE, <<>>, TRUE, <<WideSheet>>, 1)
       ELSE TemplateFiles[id]]

AsyncHashes == [id \in DOMAIN AsyncFiles |-> generateTemplateHash(AsyncFiles[id].bytes)]

\* a key without the record id
SharedKey(templateName, id, record) == templateName \o <<"_">> \o AsyncHashes[id]

\* `${templateName}_${templateHash}_${getRecordId(record)}`
AsyncKey(templateName, id, record) ==
  templateName \o <<"_">> \o AsyncHashes[id] \o <<"_">> \o String(getRecordId(record))

sR2 == <<"r","2">>

RecordB == Record(sR2, Obj(<<Entry(fName, Str(<<"B">>))>>))

AsyncRecords == {RecordA, RecordB}

\* a call that has not run yet
Task(id, record) ==
  [fn |-> IF id = "docxA" THEN "docx" ELSE "xlsx", id |-> id, record |-> record,
   pc |-> "start", processedRecord |-> Undefined, sheets |-> <<>>, pos |-> 0,
   result |-> NoBlob, hit |-> FALSE]

InitAsync ==
  /\ docxTemplateCache = Obj(<<>>)
  /\ xlsxTemplateCache = Obj(<<>>)
  /\ now = 0
  /\ calls = 0
  /\ repeats = 0
  /\ call = NoCall
  /\ writerOk = TRUE
  /\ resolve = NoResolve
  /\ enhanced = NoJob
  /\ filled = NoJob
  /\ report = NoJob
  /\ format = NoJob
  /\ \E id \in DOMAIN AsyncFiles, records \in [1..MaxTasks -> AsyncRecords] :
       tasks = [t \in 1..MaxTasks |-> Task(id, records[t])]

TaskKey(task) == AsyncKey(sNameA, task.id, task.record)

\* the call runs from its start to `await generateTemplateHash(...)`
StartRender(t) ==
  /\ tasks[t].pc = "start"
  /\ tasks' = [tasks EXCEPT ![t].pc = "hash",
                            ![t].processedRecord = enhanceRecordData(tasks[t].record, now)]
  /\ UNCHANGED <<docxTemplateCache, xlsxTemplateCache, now, calls, repeats, call,
                 writerOk, resolve, enhanced, filled, report, format>>

\* the cached output is returned
ReturnCached(t, cache) ==
  /\ tasks' = [tasks EXCEPT ![t].pc = "done", ![t].hit = TRUE,
                            ![t].result = Get(cache, TaskKey(tasks[t]))]
  /\ UNCHANGED <<docxTemplateCache, xlsxTemplateCache>>

\* the document is rendered, stored and returned
RenderDocxTask(t, output) ==
  /\ docxTemplateCache' = StoreDocx(docxTemplateCache, TaskKey(tasks[t]), output)
  /\ tasks' = [tasks EXCEPT ![t].pc = "done", ![t].result = output]
  /\ UNCHANGED xlsxTemplateCache

\* processDocxTemplate from the cache lookup to its return: no await between
LookupDocx(t) ==
  /\ tasks[t].pc = "hash"
  /\ tasks[t].fn = "docx"
  /\ IF has(docxTemplateCache, TaskKey(tasks[t]))
       THEN ReturnCached(t, docxTemplateCache)
       ELSE RenderDocxTask(t, RenderedDocx(tasks[t].id, tasks[t].processedRecord))
  /\ UNCHANGED <<now, calls, repeats, call, writerOk, resolve, enhanced, filled,
                 report, format>>

\* the number of cells in the range of Sheet1, 0 without a Sheet1
Sheet1Cells(sheets) ==
  IF \E i \in 1..Len(sheets) : sheets[i].name = sSheet1
    THEN Len(sheets[CHOOSE i \in 1..Len(sheets) : sheets[i].name = sSheet1].cells)
    ELSE 0

\* the first multiple of batchSize from pos on
NextYield(pos) == ((pos + BatchSize - 1) \div BatchSize) * BatchSize

\* the workbook after the cells from..to of Sheet1 are processed
ProcessRange(sheets, from, to, processedRecord) ==
  [i \in 1..Len(sheets) |->
     IF sheets[i].name = sSheet1
       THEN Sheet(sheets[i].name,
                  [c \in 1..Len(sheets[i].cells) |->
                     IF from <= c /\ c <= to
                       THEN ProcessCell(sheets[i].cells[c], processedRecord)
                       ELSE sheets[i].cells[c]])
       ELSE sheets[i]]

\* XLSX.write of the workbook of a call
WrittenXlsx(id, sheets) ==
  [type |-> mimeXlsx, kind |-> "rendered", size |-> AsyncFiles[id].outSize,
   source |-> id, sheets |-> sheets]

\* lines 2061-2071: the workbook is written, stored and returned
FinishXlsx(t, blob) ==
  /\ xlsxTemplateCache' = StoreXlsx(xlsxTemplateCache, TaskKey(tasks[t]), blob)
  /\ tasks' = [tasks EXCEPT ![t].pc = "done", ![t].sheets = <<>>, ![t].result = blob]

\* the loop over the cells from pos on: it runs to the next multiple of
\* batchSize and awaits the timer there, or runs to the end and finishes
RunCells(t, sheets, pos) ==
  IF NextYield(pos) <= Sheet1Cells(sheets)
    THEN /\ tasks' = [tasks EXCEPT ![t].pc = "yield", ![t].pos = NextYield(pos) + 1,
                                   ![t].sheets = ProcessRange(sheets, pos, NextYield(pos),
                                                              tasks[t].processedRecord)]
         /\ UNCHANGED xlsxTemplateCache
    ELSE FinishXlsx(t, WrittenXlsx(tasks[t].id,
                                   ProcessRange(sheets, pos, Sheet1Cells(sheets),
                                                tasks[t].processedRecord)))

\* processXlsxTemplate from the cache lookup to the first await of the loop
\* over the cells, or to its return
LookupXlsx(t) ==
  /\ tasks[t].pc = "hash"
  /\ tasks[t].fn = "xlsx"
  /\ IF has(xlsxTemplateCache, TaskKey(tasks[t]))
       THEN ReturnCached(t, xlsxTemplateCache)
       ELSE /\ RunCells(t, AsyncFiles[tasks[t].id].sheets, 1)
            /\ UNCHANGED docxTemplateCache
  /\ UNCHANGED <<now, calls, repeats, call, writerOk, resolve, enhanced, filled,
                 report, format>>

\* the timer of line 2051 fired: the loop over the cells goes on
ResumeXlsx(t) ==
  /\ tasks[t].pc = "yield"
  /\ RunCells(t, tasks[t].sheets, tasks[t].pos)
  /\ UNCHANGED <<docxTemplateCache, now, calls, repeats, call, writerOk, resolve,
                 enhanced, filled, report, format>>

Start == \E t \in 1..Len(tasks) : StartRender(t)
ContinueDocx == \E t \in 1..Len(tasks) : LookupDocx(t)
ContinueXlsx == \E t \in 1..Len(tasks) : LookupXlsx(t)
Resume == \E t \in 1..Len(tasks) : ResumeXlsx(t)

NextAsync == Tick \/ Start \/ ContinueDocx \/ ContinueXlsx \/ Resume

SpecAsync == InitAsync /\ [][NextAsync]_vars

(***************************************************************************)
(* POST /api/document/generate: the loop over the records of a request.    *)
(* The request holds its template, its records, the record the loop is at, *)
(* documentUrls, processedRecordIds, and a log of what was done for each   *)
(* record.  Uploads and write-backs succeed or fail as the services do.    *)
(***************************************************************************)
MaxRecords == 3

GenerateIds == {"docxA", "docxTwin", "xlsxA"}

\* two records, and a record that came without its fields
GenerateRecords == {BatchRecord(1), BatchRecord(2), RecordNoFields}

\* Object.keys(record.fields) throws
NoFieldsOf(record) == Get(record, kFields).t \in {"null", "undefined"}

TypeOfTemplate(id) == IF id = "xlsxA" THEN "xlsx" ELSE "docx"

\* uploadResult.fullPath for the file record_id_timestamp.templateType; the
\* path of a simulated upload is under example.com
FullPath(recordId, timestamp, templateType, simulated) ==
  [record_id |-> recordId, timestamp |-> timestamp, templateType |-> templateType,
   simulated |-> simulated]

\* a test that never finds the record id
Unprocessed(processedRecordIds, recordId) == FALSE

\* processedRecordIds.has(record.record_id)
Processed(processedRecordIds, recordId) == recordId \in processedRecordIds

\* what was done for a record: the outcome of the render, the upload and the
\* write-back ("ok", "failed", "simulated" or "none"), and the URL if any
Handled(recordId, render, upload, update, url) ==
  [record_id |-> recordId, render |-> render, upload |-> upload, update |-> update,
   url |-> url]

InitGenerate ==
  /\ docxTemplateCache = Obj(<<>>)
  /\ xlsxTemplateCache = Obj(<<>>)
  /\ now = 0
  /\ calls = 0
  /\ repeats = 0
  /\ call = NoCall
  /\ writerOk = TRUE
  /\ resolve = NoResolve
  /\ enhanced = NoJob
  /\ filled = NoJob
  /\ report = NoJob
  /\ format = NoJob
  /\ \E id \in GenerateIds, development \in BOOLEAN, n \in 1..MaxRecords :
       \E records \in [1..n -> GenerateRecords] :
         tasks = [id |-> id, development |-> development, records |-> records,
                  at |-> 1, documentUrls |-> <<>>, processedRecordIds |-> {},
                  log |-> <<>>, done |-> FALSE]

\* the record the loop is at, and its id
RecordAt == tasks.records[tasks.at]

RecordIdAt == Get(RecordAt, kRecordId)

\* lines 259-262: the record id was handled before, the record is skipped
SkipRecord ==
  /\ ~tasks.done
  /\ tasks.at <= Len(tasks.records)
  /\ Processed(tasks.processedRecordIds, RecordIdAt)
  /\ tasks' = [tasks EXCEPT !.at = @ + 1]
  /\ UNCHANGED <<docxTemplateCache, xlsxTemplateCache, now, calls, repeats, call,
                 writerOk, resolve, enhanced, filled, report, format>>

\* line 265: the fields of the record cannot be counted; the catch block
\* of the loop body logs the failure before the record id is added to
\* processedRecordIds
FailRecord ==
  /\ ~tasks.done
  /\ tasks.at <= Len(tasks.records)
  /\ ~Processed(tasks.processedRecordIds, RecordIdAt)
  /\ NoFieldsOf(RecordAt)
  /\ tasks' = [tasks EXCEPT !.at = @ + 1,
                            !.log = Append(@, Handled(RecordIdAt, "none", "none",
                                                      "none", Undefined))]
  /\ UNCHANGED <<docxTemplateCache, xlsxTemplateCache, now, calls, repeats, call,
                 writerOk, resolve, enhanced, filled, report, format>>

\* lines 264-344: the body of the loop for a record id not handled before:
\* render, upload, documentUrls.push, write-back; outside development a failed
\* render or upload ends the handling of the record
HandleRecord ==
  /\ ~tasks.done
  /\ tasks.at <= Len(tasks.records)
  /\ ~Processed(tasks.processedRecordIds, RecordIdAt)
  /\ ~NoFieldsOf(RecordAt)
  /\ \E out \in {processTemplate(tasks.id, TypeOfTemplate(tasks.id), RecordAt,
                                  Str(sNameA), now, writerOk,
                                  docxTemplateCache, xlsxTemplateCache)},
        uploadOk \in BOOLEAN, updateOk \in BOOLEAN :
       /\ docxTemplateCache' = out.docx
       /\ xlsxTemplateCache' = out.xlsx
       /\ call' = Called("processTemplate", tasks.id, TypeOfTemplate(tasks.id),
                         RecordAt, Str(sNameA), out, FALSE)
       /\ \E render \in {IF ~out.threw THEN "ok"
                          ELSE IF tasks.development THEN "simulated" ELSE "failed"} :
            \E upload \in {IF render = "failed" THEN "none"
                            ELSE IF uploadOk THEN "ok"
                            ELSE IF tasks.development THEN "simulated" ELSE "failed"} :
              \E url \in {FullPath(RecordIdAt, now, TypeOfTemplate(tasks.id),
                                    upload = "simulated")} :
                tasks' =
                  IF upload \in {"ok", "simulated"}
                    THEN [tasks EXCEPT
                            !.at = @ + 1,
                            !.processedRecordIds = @ \cup {RecordIdAt},
                            !.documentUrls = Append(@, url),
                            !.log = Append(@, Handled(RecordIdAt, render, upload,
                                              IF updateOk THEN "ok" ELSE "failed",
                                              url))]
                    ELSE [tasks EXCEPT
                            !.at = @ + 1,
                            !.processedRecordIds = @ \cup {RecordIdAt},
                            !.log = Append(@, Handled(RecordIdAt, render, upload,
                                                      "none", Undefined))]
  /\ UNCHANGED <<now, calls, repeats, writerOk, resolve, enhanced, filled, report,
                 format>>

\* lines 347-357: after the loop the response carries documentUrls
Respond ==
  /\ ~tasks.done
  /\ tasks.at > Len(tasks.records)
  /\ tasks' = [tasks EXCEPT !.done = TRUE]
  /\ UNCHANGED <<docxTemplateCache, xlsxTemplateCache, now, calls, repeats, call,
                 writerOk, resolve, enhanced, filled, report, format>>

NextGenerate == SkipRecord \/ FailRecord \/ HandleRecord \/ Respond

SpecGenerate == InitGenerate /\ [][NextGenerate]_vars

(***************************************************************************)
(* The value formatter call by call, on values that live in a heap: an     *)
(* array or object holds the addresses of its members, so that a value can *)
(* contain itself.  Every call of formatValueByType takes a frame of the   *)
(* call stack, which holds MaxStack frames.                                *)
(***************************************************************************)
MaxStack == 4

kSelf == <<"s","e","l","f">>
sComplexObject == <<"[","u590d","u6742","u5bf9","u8c61","]">>

RangeError == Error(<<"RangeError">>, <<"Maximum call stack size exceeded">>)

Leaf(v) == [t |-> "leaf", v |-> v]
ArrNode(items) == [t |-> "array", items |-> items]
ObjNode(entries) == [t |-> "object", entries |-> entries]

\* values that contain themselves; the value formatted is at address 1
CyclicHeaps ==
  { <<ArrNode(<<1>>)>>,
    <<ArrNode(<<2, 1>>), Leaf(Str(<<"x">>))>>,
    <<ObjNode(<<Entry(kValue, 1)>>)>>,
    <<ObjNode(<<Entry(kType, 2), Entry(kValue, 1)>>), Leaf(Small(3))>>,
    <<ArrNode(<<2>>), ObjNode(<<Entry(kValue, 1)>>)>>,
    <<ObjNode(<<Entry(kSelf, 1)>>)>>,
    <<ArrNode(<<2>>), ObjNode(<<Entry(kSelf, 2)>>)>> }

FormatLeaves ==
  { Str(<<"x">>), Small(7), Null, Obj(<<Entry(kName, Str(<<"n">>))>>),
    Obj(<<Entry(kSelf, Str(<<"x">>))>>) }

\* leaf wrapped depth times: in arrays, or in objects under the key `value`
Nest(depth, inArrays, leaf) ==
  [a \in 1..(depth + 1) |->
     IF a = depth + 1 THEN Leaf(leaf)
     ELSE IF inArrays THEN ArrNode(<<a + 1>>)
     ELSE ObjNode(<<Entry(kValue, a + 1)>>)]

FormatHeaps ==
  CyclicHeaps \cup
    { Nest(depth, inArrays, leaf) :
        depth \in 0..MaxStack, inArrays \in BOOLEAN, leaf \in FormatLeaves }

\* the addresses a node holds
Members(node) ==
  IF node.t = "array" THEN {node.items[i] : i \in 1..Len(node.items)}
  ELSE IF node.t = "object" THEN {node.entries[i].v : i \in 1..Len(node.entries)}
  ELSE {}

\* the addresses reached from the addresses of set in at most n steps
RECURSIVE ReachFrom(_, _, _)
ReachFrom(heap, set, n) ==
  IF n = 0 THEN set
  ELSE ReachFrom(heap, set \cup UNION {Members(heap[a]) : a \in set}, n - 1)

\* the value at address ref contains a value that contains itself
Cyclic(heap, ref) ==
  \E a \in ReachFrom(heap, {ref}, Len(heap)) :
    a \in ReachFrom(heap, Members(heap[a]), Len(heap))

\* the value at address ref, which contains no cycle
RECURSIVE ValueAt(_, _)
ValueAt(heap, ref) ==
  IF heap[ref].t = "leaf" THEN heap[ref].v
  ELSE IF heap[ref].t = "array"
    THEN Arr([i \in 1..Len(heap[ref].items) |-> ValueAt(heap, heap[ref].items[i])])
  ELSE Obj([i \in 1..Len(heap[ref].entries) |->
              Entry(heap[ref].entries[i].k, ValueAt(heap, heap[ref].entries[i].v))])

\* lines 1460-1464: JSON.stringify throws on a cycle and the catch block
\* returns the fixed text
StringifyOr(heap, ref) ==
  IF Cyclic(heap, ref) THEN Str(sComplexObject) ELSE Str(stringify(ValueAt(heap, ref)))

Frame(ref) == [ref |-> ref, i |-> 1, acc |-> <<>>]

NoReturn == [has |-> FALSE, v |-> Undefined]

Returning(v) == [has |-> TRUE, v |-> v]

\* the call of the top frame goes on to a call of formatValueByType on the
\* value at this address, 0 when it returns without a further call; the
\* objects of the heaps have no text, name or title and no type 1 or 2
Callee(node, frame) ==
  IF node.t = "array"
    THEN IF frame.i <= Len(node.items) THEN node.items[frame.i] ELSE 0
  ELSE IF node.t = "object" /\ HasKey(node, kValue) THEN Get(node, kValue)
  ELSE 0

\* what the call of the top frame returns when it makes no further call
Returns(heap, node, frame, fieldName) ==
  IF node.t = "leaf" THEN formatValueByType(node.v, fieldName)
  ELSE IF node.t = "array" THEN Str(join(frame.acc, <<",", " ">>))
  ELSE StringifyOr(heap, frame.ref)

Front(stack) == SubSeq(stack, 1, Len(stack) - 1)

Top(stack) == stack[Len(stack)]

InitFormat ==
  /\ docxTemplateCache = Obj(<<>>)
  /\ xlsxTemplateCache = Obj(<<>>)
  /\ now = 0
  /\ calls = 0
  /\ repeats = 0
  /\ call = NoCall
  /\ writerOk = TRUE
  /\ resolve = NoResolve
  /\ enhanced = NoJob
  /\ filled = NoJob
  /\ report = NoJob
  /\ tasks = <<>>
  /\ \E heap \in FormatHeaps :
       format = [heap |-> heap, stack |-> <<Frame(1)>>, ret |-> NoReturn,
                 done |-> FALSE, threw |-> FALSE, value |-> Undefined]

\* the call of the top frame runs to its next call of formatValueByType, for
\* which the stack has room, or to its return
FormatCall ==
  /\ ~format.done
  /\ ~format.ret.has
  /\ format.stack # <<>>
  /\ \E frame \in {Top(format.stack)} :
       \E callee \in {Callee(format.heap[frame.ref], frame)} :
         /\ callee # 0 => Len(format.stack) < MaxStack
         /\ format' =
              IF callee # 0
                THEN [format EXCEPT !.stack = Append(format.stack, Frame(callee))]
                ELSE [format EXCEPT
                        !.stack = Front(format.stack),
                        !.ret = Returning(Returns(format.heap, format.heap[frame.ref],
                                                  frame, fName))]
  /\ UNCHANGED <<docxTemplateCache, xlsxTemplateCache, now, calls, repeats, call,
                 writerOk, resolve, enhanced, filled, report, tasks>>

\* the next call of formatValueByType finds the stack full: the engine throws
\* a RangeError, which nothing in formatValueByType catches
StackOverflow ==
  /\ ~format.done
  /\ ~format.ret.has
  /\ format.stack # <<>>
  /\ Callee(format.heap[Top(format.stack).ref], Top(format.stack)) # 0
  /\ Len(format.stack) = MaxStack
  /\ format' = [format EXCEPT !.stack = <<>>, !.done = TRUE, !.threw = TRUE,
                              !.value = RangeError]
  /\ UNCHANGED <<docxTemplateCache, xlsxTemplateCache, now, calls, repeats, call,
                 writerOk, resolve, enhanced, filled, report, tasks>>

\* a call has returned: to the caller of formatValueByType, to the callback
\* of map, which goes on to the next item, or to a call that returns the
\* value as its own
FormatReturn ==
  /\ ~format.done
  /\ format.ret.has
  /\ format' =
       IF format.stack = <<>>
         THEN [format EXCEPT !.done = TRUE, !.value = format.ret.v, !.ret = NoReturn]
       ELSE IF format.heap[Top(format.stack).ref].t = "array"
         THEN [format EXCEPT
                 !.stack[Len(format.stack)].i = @ + 1,
                 !.stack[Len(format.stack)].acc = Append(@, String(format.ret.v)),
                 !.ret = NoReturn]
       ELSE [format EXCEPT !.stack = Front(format.stack)]
  /\ UNCHANGED <<docxTemplateCache, xlsxTemplateCache, now, calls, repeats, call,
                 writerOk, resolve, enhanced, filled, report, tasks>>

NextFormat == FormatCall \/ StackOverflow \/ FormatReturn

SpecFormat == InitFormat /\ [][NextFormat]_vars

(***************************************************************************)
(* The value formatter on values read from JSON: one call of               *)
(* formatValueByType(value, fieldName) on a value, or on an array of at    *)
(* most MaxItems values, under a plain, a counting or a date field name    *)
(***************************************************************************)
MaxItems == 2

sCreatedDate == <<"u521b","u5efa","u65e5","u671f">>
sAmount == <<"a","m","o","u","n","t">>
sStartTime == <<"S","t","a","r","t"," ","T","i","m","e">>

ValueFieldNames == {fName, CountField, sDate, sCreatedDate, sAmount, sStartTime}

\* 1700000000000, the epoch of 2023-11-14 in milliseconds, and in seconds
EpochMs == Num(1700000, 0)
EpochSeconds == Num(1700, 0)

\* the threshold of the timestamp test, and the next number
Threshold == Num(1000000, 0)
AboveThreshold == Num(1000000, 1)

sIsoDay == <<"2","0","2","4","-","0","1","-","0","5">>

Tagged(type, value) == Obj(<<Entry(kType, Small(type)), Entry(kValue, value)>>)

\* objects with attributes and no type/value pair
AttributedValues ==
  { Obj(<<Entry(kName, Str(<<"n">>)), Entry(kValue, Str(<<"v">>))>>),
    Obj(<<Entry(kValue, Str(<<"v">>))>>),
    Obj(<<Entry(kValue, EpochMs)>>),
    Obj(<<Entry(kText, Str(<<"t">>)), Entry(kName, Str(<<"n">>))>>),
    Obj(<<Entry(kTitle, Str(<<"T">>)), Entry(kValue, Str(<<"v">>))>>),
    Obj(<<Entry(kName, Str(<<"n">>)), Entry(kTitle, Str(<<"T">>))>>),
    Obj(<<Entry(kName, Small(5)), Entry(kTitle, Str(<<"T">>))>>),
    Obj(<<Entry(kSelf, Str(<<"x">>))>>) }

\* values tagged as date/time (5, 1003), text (1), number (2) and other (3)
TaggedValues ==
  { Tagged(5, EpochMs), Tagged(1003, EpochMs), Tagged(5, EpochSeconds),
    Tagged(5, Str(sIsoDay)), Tagged(5, Str(NumToStr(EpochMs))),
    Tagged(1, Str(<<"x">>)), Tagged(2, Small(7)), Tagged(3, Str(<<"x">>)) }

PlainValues ==
  { Str(<<"x">>), Str(<<"4","2">>), Str(sIsoDay), Small(7), Null,
    EpochMs, EpochSeconds, Threshold, AboveThreshold }

\* the items of the arrays
ArrayItems ==
  { Str(<<"x">>), Str(<<"4","2">>), Small(7), Null, EpochMs,
    Obj(<<Entry(kName, Str(<<"n">>))>>) }

ArrayValues ==
  {Arr(items) : items \in UNION {[1..n -> ArrayItems] : n \in 0..MaxItems}}

FormatValues == PlainValues \cup AttributedValues \cup TaggedValues \cup ArrayValues

InitValue ==
  /\ docxTemplateCache = Obj(<<>>)
  /\ xlsxTemplateCache = Obj(<<>>)
  /\ now = 0
  /\ calls = 0
  /\ repeats = 0
  /\ call = NoCall
  /\ writerOk = TRUE
  /\ resolve = NoResolve
  /\ enhanced = NoJob
  /\ filled = NoJob
  /\ report = NoJob
  /\ tasks = <<>>
  /\ \E value \in FormatValues, fieldName \in ValueFieldNames :
       format = [value |-> value, fieldName |-> fieldName, done |-> FALSE,
                 out |-> Undefined]

\* formatValueByType(value, fieldName) returns
FormatValueByType ==
  /\ ~format.done
  /\ format' = [format EXCEPT !.done = TRUE,
                              !.out = formatValueByType(format.value, format.fieldName)]
  /\ UNCHANGED <<docxTemplateCache, xlsxTemplateCache, now, calls, repeats, call,
                 writerOk, resolve, enhanced, filled, report, tasks>>

NextValue == FormatValueByType

SpecValue == InitValue /\ [][NextValue]_vars

(***************************************************************************)
(* Properties of the render calls                                          *)
(***************************************************************************)
\* the template bytes of the last call, <<>> when the buffer is absent
CallBytes == IF call.id = "missing" THEN <<>> ELSE TemplateFiles[call.id].bytes

\* the last call is processTemplate with non-empty bytes, a known type and a
\* record that is not null
ValidCall ==
  /\ call.fn = "processTemplate"
  /\ Len(CallBytes) > 0
  /\ call.templateType \in {"docx", "xlsx"}
  /\ call.record # Null

\* the value is a blob a caller can use
IsArtifact(value) == value.kind \in {"rendered", "report", "text"}

C2_InvalidInputRaises ==
  /\ call.fn = "processTemplate"
  /\ \/ Len(CallBytes) = 0
     \/ call.templateType \notin {"docx", "xlsx"}
     \/ call.record = Null
  => call.threw

\* C3: when the bytes are no valid zip archive (type docx) or no valid workbook
\* (type xlsx), processTemplate propagates the failure to its caller and
\* produces no fallback report
C3_BadStructurePropagates ==
  /\ ValidCall
  /\ ~enhanceRecordDataThrows(call.record)
  /\ ~call.hit
  /\ \/ call.templateType = "docx" /\ ~TemplateFiles[call.id].zip
     \/ call.templateType = "xlsx" /\ ~TemplateFiles[call.id].workbook
  => call.threw

\* C4: processXlsxTemplate propagates an error to its caller when the bytes are
\* empty, cannot be parsed as a workbook, or parse to a workbook with no
\* sheets, and returns no fallback workbook
C4_XlsxBadInputPropagates ==
  /\ call.fn = "processXlsxTemplate"
  /\ ~enhanceRecordDataThrows(call.record)
  /\ ~call.hit
  /\ \/ Len(CallBytes) = 0
     \/ ~TemplateFiles[call.id].workbook
     \/ Len(TemplateFiles[call.id].sheets) = 0
  => call.threw

\* C5: in both renderers an exception raised by enhanceRecordData, or while
\* substituting into a parsed template, is caught inside the renderer, which
\* returns a fallback report of its own family and does not throw
C5_RendererCatchesContextFailure ==
  /\ call.fn \in {"processDocxTemplate", "processXlsxTemplate"}
  /\ Len(CallBytes) > 0
  /\ call.record # Null
  /\ writerOk
  /\ ~call.hit
  /\ \/ enhanceRecordDataThrows(call.record)
     \/ /\ call.fn = "processDocxTemplate"
        /\ TemplateFiles[call.id].zip
        /\ ~TemplateFiles[call.id].docx
  => /\ ~call.threw
     /\ call.value.kind = "report"
     /\ call.value.type = IF call.fn = "processDocxTemplate" THEN mimeDocx ELSE mimeXlsx

\* C6: the number of entries of each render cache never exceeds the capacity of
\* 50: a put on a full cache evicts the oldest entry first
C6_CacheBounded ==
  /\ Len(docxTemplateCache.entries) <= 50
  /\ Len(xlsxTemplateCache.entries) <= 50

\* C8: no entry of either cache holds an output of size 0
C8_NoEmptyOutputCached ==
  /\ \A i \in 1..Len(docxTemplateCache.entries) : docxTemplateCache.entries[i].v.size > 0
  /\ \A i \in 1..Len(xlsxTemplateCache.entries) : xlsxTemplateCache.entries[i].v.size > 0

\* a render returned an output of size 0 and did not store it
C8_Witness ==
  /\ call.fn \in {"processTemplate", "processXlsxTemplate"}
  /\ call.templateType = "xlsx"
  /\ ~call.threw
  /\ call.value.kind = "rendered"
  /\ call.value.size = 0
  /\ xlsxTemplateCache.entries = <<>>

\* the first call rendered an output that is not empty, under a template name
\* the caller gave
RenderedBefore ==
  /\ call.again
  /\ ~call.before.threw
  /\ call.before.value.kind = "rendered"
  /\ call.before.value.size > 0
  /\ call.templateName # Undefined

Cascade(fieldName, recordData) ==
  LET lower == toLowerCase(fieldName)
      keys == Keys(recordData)
      HasChinese(key) == /\ includes(toLowerCase(key), lower)
                         /\ includes(toLowerCase(key), wChinese)
      HasFormatted(key) == /\ includes(toLowerCase(key), lower)
                           /\ includes(toLowerCase(key), wFormatted)
      IsTextOf(key) == toLowerCase(key) = lower \o sufText
      IsNameOf(key) == toLowerCase(key) = lower
      Text(key) == Str(String(Get(recordData, key)))
  IN  IF HasKey(recordData, fieldName)
        THEN formatValueByType(Get(recordData, fieldName), fieldName)
      ELSE IF HasKey(recordData, fieldName \o sufText)
        THEN Text(fieldName \o sufText)
      ELSE IF isDateField(fieldName) /\ HasKey(recordData, fieldName \o sufChinese)
        THEN Text(fieldName \o sufChinese)
      ELSE IF isDateField(fieldName) /\ HasKey(recordData, fieldName \o sufFormatted)
        THEN Text(fieldName \o sufFormatted)
      ELSE IF isDateField(fieldName) /\ \E i \in 1..Len(keys) : HasChinese(keys[i])
        THEN Text(find(keys, HasChinese).s)
      ELSE IF isDateField(fieldName) /\ \E i \in 1..Len(keys) : HasFormatted(keys[i])
        THEN Text(find(keys, HasFormatted).s)
      ELSE IF \E i \in 1..Len(keys) : IsTextOf(keys[i])
        THEN Text(find(keys, IsTextOf).s)
      ELSE IF \E i \in 1..Len(keys) : IsNameOf(keys[i])
        THEN formatValueByType(Get(recordData, find(keys, IsNameOf).s),
                               find(keys, IsNameOf).s)
      ELSE Str(<<>>)

\* C9: resolveFieldValue returns the result of the first step of the cascade
\* that matches a key of the context (exact key; key_text; for a date-like
\* name key_chinese, then key_formatted; then, ignoring case, for a date-like
\* name a key containing the name and chinese, then formatted; a key equal to
\* name_text; a key equal to the name), and the empty string when no step
\* matches; the key Project Name is found under the name project name
C9_FirstMatchingStep ==
  resolve.done =>
    /\ resolve.value = Cascade(resolve.fieldName, resolve.recordData)
    /\ resolve.fieldName = sProjectName /\ HasKey(resolve.recordData, sProjectNameTitle)
         => resolve.value = Get(resolve.recordData, sProjectNameTitle)

\* the key is the name, or the name with one of the suffixes _text, _chinese
\* and _formatted, compared without case
IsKeyOf(key, fieldName) ==
  toLowerCase(key) \in
    { toLowerCase(fieldName \o suffix) :
        suffix \in {<<>>, sufText, sufChinese, sufFormatted} }

\* C29: a result of resolveFieldValue that is not empty is the value, as it is
\* or formatted, of a key of the context that is the name or the name with
\* _text, _chinese or _formatted, compared without case
C29_OwnKeyOnly ==
  resolve.done /\ String(resolve.value) # <<>> =>
    \E i \in 1..Len(Keys(resolve.recordData)) :
      \E key \in {Keys(resolve.recordData)[i]} :
        /\ IsKeyOf(key, resolve.fieldName)
        /\ resolve.value \in
             { Str(String(Get(resolve.recordData, key))),
               formatValueByType(Get(resolve.recordData, key), resolve.fieldName),
               formatValueByType(Get(resolve.recordData, key), key) }

C12_OriginalsKept ==
  enhanced.done =>
    \A i \in 1..Len(getRecordFields(enhanced.record).entries) :
      /\ HasKey(enhanced.context, getRecordFields(enhanced.record).entries[i].k)
      /\ Get(enhanced.context, getRecordFields(enhanced.record).entries[i].k)
           = getRecordFields(enhanced.record).entries[i].v

(***************************************************************************)
(* Properties of filling in a template                                     *)
(***************************************************************************)
\* no key of the context matches a step of the cascade for the name
NoStepMatches(fieldName, recordData) ==
  LET lower == toLowerCase(fieldName)
      keys == Keys(recordData)
  IN  /\ ~HasKey(recordData, fieldName)
      /\ ~HasKey(recordData, fieldName \o sufText)
      /\ isDateField(fieldName) =>
            /\ ~HasKey(recordData, fieldName \o sufChinese)
            /\ ~HasKey(recordData, fieldName \o sufFormatted)
            /\ \A i \in 1..Len(keys) :
                  ~(/\ includes(toLowerCase(keys[i]), lower)
                    /\ \/ includes(toLowerCase(keys[i]), wChinese)
                       \/ includes(toLowerCase(keys[i]), wFormatted))
      /\ \A i \in 1..Len(keys) :
            toLowerCase(keys[i]) \notin {lower \o sufText, lower}

\* the names of the placeholders of a text, from position i on
RECURSIVE TokenNames(_, _)
TokenNames(s, i) ==
  IF i > Len(s) THEN <<>>
  ELSE IF MatchAt(s, i)
    THEN <<SubSeq(s, i + 1, NextClose(s, i) - 1)>> \o TokenNames(s, NextClose(s, i) + 1)
    ELSE TokenNames(s, i + 1)

\* the text without its placeholders, from position i on
RECURSIVE Stripped(_, _)
Stripped(s, i) ==
  IF i > Len(s) THEN <<>>
  ELSE IF MatchAt(s, i) THEN Stripped(s, NextClose(s, i) + 1)
  ELSE <<s[i]>> \o Stripped(s, i + 1)

\* every placeholder of the text is one no key of the context matches
AllUnmatched(text, recordData) ==
  /\ TokenNames(text, 1) # <<>>
  /\ \A n \in 1..Len(TokenNames(text, 1)) :
        NoStepMatches(TokenNames(text, 1)[n], recordData)

\* C11: in both renderers a placeholder that no key of the context matches is
\* replaced by the empty string: the tag of a document gives the empty text,
\* and a cell of Sheet1 whose placeholders are all unmatched keeps only the
\* text around them
C11_UnmatchedBlank ==
  filled.done =>
    /\ \A i \in 1..Len(filled.tags) :
          NoStepMatches(filled.tags[i], filled.processedRecord)
            => filled.parts[i] = <<>>
    /\ \A i \in 1..Len(filled.sheets) :
          filled.sheets[i].name = sSheet1 =>
            \A c \in 1..Len(filled.sheets[i].cells) :
              AllUnmatched(filled.sheets[i].cells[c].v.s, filled.processedRecord)
                => String(filled.out[i].cells[c].v)
                     = Stripped(filled.sheets[i].cells[c].v.s, 1)

\* the value of the count field of the record that was filled in
CountValue == Get(getRecordFields(filled.record), CountField)

\* a number, or a string of digits
IsNumeric(v) == v.t = "number" \/ (v.t = "string" /\ AllDigits(v.s))

\* C13: a cell of the workbook whose whole text is the placeholder of the
\* count field, filled in for a record whose count field is a string of digits
\* or a number, holds that number and has the numeric cell type
C13_CountCellNumeric ==
  filled.done /\ IsNumeric(CountValue) =>
    \A i \in 1..Len(filled.sheets) :
      \A c \in 1..Len(filled.sheets[i].cells) :
        filled.sheets[i].cells[c].v.s = Placeholder(CountField)
          => /\ filled.out[i].cells[c].v = Number(CountValue)
             /\ filled.out[i].cells[c].t = "n"

\* C28: a cell of the output workbook holds a number with the numeric cell
\* type only if the whole trimmed text of the template's cell is the
\* placeholder of the count field and the record holds a numeric value of that
\* field; every other cell is written as text
C28_NumericOnlyForCount ==
  filled.done =>
    \A i \in 1..Len(filled.sheets) :
      \A c \in 1..Len(filled.sheets[i].cells) :
        filled.out[i].cells[c].v.t = "number" \/ filled.out[i].cells[c].t = "n"
          => /\ trim(filled.sheets[i].cells[c].v.s) = Placeholder(CountField)
             /\ HasKey(getRecordFields(filled.record), CountField)
             /\ IsNumeric(CountValue)

\* C14: every cell of the output workbook has the formula that the cell of the
\* template had; filling in a cell changes its value and display text only
C14_FormulaKept ==
  filled.done =>
    \A i \in 1..Len(filled.sheets) :
      /\ Len(filled.out[i].cells) = Len(filled.sheets[i].cells)
      /\ \A c \in 1..Len(filled.sheets[i].cells) :
           filled.out[i].cells[c].f = filled.sheets[i].cells[c].f

\* a formula cell of Sheet1 was filled in: its value and display text changed
\* and its formula did not
C14_Witness ==
  /\ filled.done
  /\ filled.sheets[1].name = sSheet1
  /\ filled.sheets[1].cells[1].f = Str(sFormula)
  /\ filled.out[1].cells[1].v # filled.sheets[1].cells[1].v
  /\ filled.out[1].cells[1].w # filled.sheets[1].cells[1].w
  /\ filled.out[1].cells[1].f = Str(sFormula)

\* C15: after the workbook is filled in, every string cell of every sheet that
\* held a {name} token holds the text in which each token is replaced by its
\* resolved value
C15_EverySheetFilled ==
  filled.done =>
    \A i \in 1..Len(filled.sheets) :
      \A c \in 1..Len(filled.sheets[i].cells) :
        /\ filled.sheets[i].cells[c].v.t = "string"
        /\ TokenNames(filled.sheets[i].cells[c].v.s, 1) # <<>>
        => filled.out[i].cells[c]
             = ProcessCell(filled.sheets[i].cells[c], filled.processedRecord)

(***************************************************************************)
(* Properties of the fallback reports                                      *)
(***************************************************************************)
\* the texts of the report that was built: its paragraphs, the cells of its
\* rows side by side, or its plain text
ReportTexts ==
  IF report.value.kind = "report" /\ report.family = "xlsx"
    THEN [i \in 1..Len(report.content) |->
            join([j \in 1..Len(report.content[i]) |-> String(report.content[i][j])],
                 <<" ">>)]
    ELSE report.content

Mentions(text) == \E i \in 1..Len(ReportTexts) : includes(ReportTexts[i], text)

\* the entry of a field in a dump of the fields: `${key}: ${displayValue}`
FieldEntryText(entry) ==
  entry.k \o <<":", " ">> \o String(formatValueByType(entry.v, entry.k))

\* the original fields of the record of the report, none for a record that is
\* not an object
ReportFields ==
  IF report.record.t = "object" /\ getRecordFields(report.record).t = "object"
    THEN getRecordFields(report.record).entries
    ELSE <<>>

\* C16: a formatted report holds the title, the template name, the record
\* id, the time stamp, the message of the error and one entry for every
\* original field of the record, formatted by the value formatter
C16_ReportComplete ==
  report.done /\ ~report.threw /\ report.value.kind = "report" =>
    /\ Mentions(sReportTitle)
    /\ Mentions(String(report.templateName))
    /\ Mentions(String(getRecordId(report.record)))
    /\ Mentions(IsoTimes[now])
    /\ Mentions(ErrorMessage(report.error))
    /\ \A i \in 1..Len(ReportFields) : Mentions(FieldEntryText(ReportFields[i]))

\* the formatted report could not be built: the engine threw, or a text of
\* the try block could not be computed
TryFailed ==
  \/ ~writerOk
  \/ ErrorTextThrows(report.error)
  \/ report.family = "docx" /\ IdTextThrows(report.record)

\* C17: when the formatted report cannot be built, the call returns a
\* plain-text blob with the template name, the record id, the time stamp and
\* the message of the error, and does not throw
C17_TextFallbackTotal ==
  report.done /\ TryFailed =>
    /\ ~report.threw
    /\ report.value.kind = "text"
    /\ report.value.type = mimeText
    /\ Mentions(String(report.templateName))
    /\ Mentions(String(getRecordId(report.record)))
    /\ Mentions(IsoTimes[now])
    /\ Mentions(ErrorMessage(report.error))

(***************************************************************************)
(* Properties of concurrent render calls                                   *)
(***************************************************************************)
\* C18: while a call is between the lookup of its key and the write of that
\* key, no other call takes a step
C18_LookupWriteAtomic ==
  [][\A t \in 1..Len(tasks) :
       tasks[t].pc = "yield" =>
         \A u \in 1..Len(tasks) : u # t => tasks'[u] = tasks[u]]_vars

\* the output of the template and record of a call, rendered at clock reading n
OwnOutput(task, n) ==
  IF task.fn = "docx"
    THEN RenderedDocx(task.id, enhanceRecordData(task.record, n))
    ELSE WrittenXlsx(task.id, RenderSheets(AsyncFiles[task.id].sheets,
                                           enhanceRecordData(task.record, n)))

IsOwnOutput(task, blob) == \E n \in 0..now : blob = OwnOutput(task, n)

\* the entries of both caches
CacheEntries == docxTemplateCache.entries \o xlsxTemplateCache.entries

\* C19: every concurrent call that has completed returned the output of its
\* own template and record, and every cache key holds the output of the
\* template and record of the calls with that key
C19_OwnOutputs ==
  /\ \A t \in 1..Len(tasks) :
       tasks[t].pc = "done" => IsOwnOutput(tasks[t], tasks[t].result)
  /\ \A i \in 1..Len(CacheEntries) :
       /\ \E t \in 1..Len(tasks) : TaskKey(tasks[t]) = CacheEntries[i].k
       /\ \A t \in 1..Len(tasks) :
            TaskKey(tasks[t]) = CacheEntries[i].k
              => IsOwnOutput(tasks[t], CacheEntries[i].v)
  /\ \A i, j \in 1..Len(CacheEntries) :
       CacheEntries[i].k = CacheEntries[j].k => i = j

\* two identical calls ran concurrently, both rendered, and both returned the
\* output that the cache holds
C19_Witness ==
  /\ Len(tasks) >= 2
  /\ tasks[1].id = "xlsxWide"
  /\ tasks[1].record = tasks[2].record
  /\ tasks[1].pc = "done" /\ tasks[2].pc = "done"
  /\ ~tasks[1].hit /\ ~tasks[2].hit
  /\ tasks[1].result = tasks[2].result
  /\ Get(xlsxTemplateCache, TaskKey(tasks[1])) = tasks[1].result

(***************************************************************************)
(* Properties of the value formatter on nested values                      *)
(***************************************************************************)
\* C20: formatValueByType returns for every value, however deep and whether
\* or not it contains itself; it never ends by throwing
C20_FormatterTotal == format.done => ~format.threw

(***************************************************************************)
(* Properties of the value formatter on values read from JSON              *)
(***************************************************************************)
\* the value formatted is an object without the type/value pair
IsAttributed(value) ==
  value.t = "object" /\ ~(HasKey(value, kType) /\ HasKey(value, kValue))

\* the attribute picked by the priority text, name, title, value
ByTextNameTitleValue(value, fieldName, other) ==
  IF HasKey(value, kText) /\ Get(value, kText) # Undefined
    THEN Str(String(Get(value, kText)))
  ELSE IF HasKey(value, kName) /\ Get(value, kName).t = "string"
    THEN Get(value, kName)
  ELSE IF HasKey(value, kTitle) /\ Get(value, kTitle).t = "string"
    THEN Get(value, kTitle)
  ELSE IF HasKey(value, kValue) /\ Get(value, kValue) # Undefined
    THEN formatValueByType(Get(value, kValue), fieldName)
  ELSE other

\* C21: an object without the type/value pair is formatted by its text, else
\* its name, else its title, else its formatted value
C21_AttributePriority ==
  format.done /\ IsAttributed(format.value) =>
    format.out = ByTextNameTitleValue(format.value, format.fieldName, format.out)

\* the field name contains "date", "time" or u65e5u671f, in any case
HasDateKeyword(fieldName) ==
  \E keyword \in {<<"d","a","t","e">>, <<"t","i","m","e">>, <<"u65e5","u671f">>} :
    includes(toLowerCase(fieldName), keyword)

\* the date of an epoch in the style the field name asks for
DateByName(value, fieldName) ==
  IF HasDateKeyword(fieldName)
    THEN Str(ChineseDate(DateOfNumber(value)))
    ELSE Str(StandardDate(DateOfNumber(value)))

\* the two date texts of an epoch
DateTexts(value) ==
  {Str(ChineseDate(DateOfNumber(value))), Str(StandardDate(DateOfNumber(value)))}

IsTimestamp(value) == value.t = "number" /\ NumGreater(value, 1000000, 0)

\* C22 as stated: a number above 1,000,000,000,000 is formatted as a date in
\* the style of the field name, whatever the field name; a number at or below
\* it is not formatted as a date
C22_TimestampByName ==
  format.done /\ format.value.t = "number" =>
    IF IsTimestamp(format.value)
      THEN format.out = DateByName(format.value, format.fieldName)
      ELSE format.out \notin DateTexts(format.value)

\* C22: under every field name but the counting field, a number above
\* 1,000,000,000,000 is formatted as a date in the style of the field name;
\* under the counting field it stays the number; a number at or below the
\* threshold is not formatted as a date
C22_TimestampUnlessCount ==
  format.done /\ format.value.t = "number" =>
    IF format.fieldName = CountField THEN format.out = format.value
    ELSE IF IsTimestamp(format.value)
      THEN format.out = DateByName(format.value, format.fieldName)
      ELSE format.out = Str(NumToStr(format.value))

\* 1700000000000 was formatted under a field name with a date keyword in
\* capitals, in the long form
C22_Witness ==
  /\ format.done
  /\ format.value = EpochMs
  /\ format.fieldName = sStartTime
  /\ format.out = Str(<<"2","0","2","3","u5e74","1","1","u6708","1","4","u65e5">>)

\* the items of the array, each formatted under the field name, joined by ", "
JoinedItems(value, fieldName) ==
  Str(join([i \in 1..Len(value.items) |->
              String(formatValueByType(value.items[i], fieldName))], <<",", " ">>))

\* C23 as stated: under every field name, an array is formatted as its items,
\* each formatted under the same field name, joined by ", " in order
C23_SequenceJoined ==
  format.done /\ format.value.t = "array" =>
    format.out = JoinedItems(format.value, format.fieldName)

\* C23: under every field name but the counting field, an array is formatted
\* as its formatted items joined by ", " in order; under the counting field
\* an array whose text converts to a number is formatted as that number, and
\* any other array as its formatted items joined by ", "
C23_SequenceJoinedUnlessCount ==
  format.done /\ format.value.t = "array" =>
    IF format.fieldName = CountField /\ ~isNaN(Number(format.value))
      THEN format.out = Number(format.value)
      ELSE format.out = JoinedItems(format.value, format.fieldName)

\* the array ["x", 1700000000000] was formatted under a date field name
C23_Witness ==
  /\ format.done
  /\ format.value = Arr(<<Str(<<"x">>), EpochMs>>)
  /\ format.fieldName = sDate
  /\ format.out = Str(<<"x", ",", " ">> \o ChineseDate(DateOfNumber(EpochMs)))

\* the value is tagged as a date/time: its type is 5 or 1003
IsTaggedDate(value) ==
  /\ value.t = "object"
  /\ HasKey(value, kType) /\ HasKey(value, kValue)
  /\ Get(value, kType) \in {Small(5), Small(1003)}

\* the nested value is a number or a string of digits
IsEpoch(nested) ==
  nested.t = "number" \/ (nested.t = "string" /\ AllDigits(trim(nested.s)))

\* 1000 times the number
Times1000(v) == Num(v.hi * 1000 + v.lo \div 1000, (v.lo % 1000) * 1000)

\* the epoch in milliseconds that a number above 1,000,000,000 stands for:
\* above 1,000,000,000,000 it is in milliseconds, otherwise in seconds
EpochOf(n) == IF NumGreater(n, 1000000, 0) THEN n ELSE Times1000(n)

\* C24: a value tagged as a date/time whose nested value is an epoch in
\* milliseconds or seconds, as a number or a string of digits, or a date-like
\* string, is formatted as YYYY-MM-DD under every field name
C24_TaggedDateStandard ==
  format.done /\ IsTaggedDate(format.value) =>
    /\ IsEpoch(Get(format.value, kValue))
         /\ NumGreater(Number(Get(format.value, kValue)), 1000, 0)
       => format.out
            = Str(StandardDate(DateOfNumber(EpochOf(Number(Get(format.value, kValue))))))
    /\ Get(format.value, kValue).t = "string"
         /\ ~IsEpoch(Get(format.value, kValue))
         /\ DateOfString(Get(format.value, kValue).s).ok
       => format.out = Str(StandardDate(DateOfString(Get(format.value, kValue).s)))

(***************************************************************************)
(* Properties of the caches over several calls                             *)
(***************************************************************************)
\* the call made before the call c, if any
Earlier(c) ==
  IF c.fn = "none" \/ c.before.fn = "none" THEN {} ELSE {c.before}

\* the cache key of a call
KeyOf(c) == cacheKey(String(c.templateName), c.id, c.record)

\* C25: two calls in a row of one renderer with the same cache key have the
\* same template bytes, the same template name and the same record id, and a
\* call served from the cache returns an output of its own template
C25_KeyIdentifiesCall ==
  /\ \A p \in Earlier(call) :
       p.fn = call.fn /\ KeyOf(p) = KeyOf(call) =>
         /\ TemplateFiles[p.id].bytes = TemplateFiles[call.id].bytes
         /\ p.templateName = call.templateName
         /\ getRecordId(p.record) = getRecordId(call.record)
  /\ call.hit => call.value.source = call.id

\* what the call c returns when nothing is cached
Uncached(c) ==
  IF c.fn = "processDocxTemplate"
  THEN processDocxTemplate(c.id, c.record, String(c.templateName), now, writerOk,
                           Obj(<<>>))
  ELSE processXlsxTemplate(c.id, c.record, String(c.templateName), now, writerOk,
                           Obj(<<>>))

\* C26: the cache is transparent: every call returns what rendering its
\* template with its record's current field values returns without a cache
C26_CacheTransparent ==
  call.fn # "none" =>
    \E out \in {Uncached(call)} :
      /\ call.threw = out.threw
      /\ call.value = out.value

\* the call c repeats the arguments of the call before it
SameArguments(c) ==
  /\ c.before.fn = c.fn
  /\ c.before.id = c.id
  /\ c.before.record = c.record
  /\ c.before.templateName = c.templateName

\* C27: every cache entry is a rendered output, never an error report, and a
\* call that follows a call of the same arguments that ended in an error
\* report is not served from the cache
C27_OnlyRendersCached ==
  /\ \A i \in 1..Len(CacheEntries) : CacheEntries[i].v.kind = "rendered"
  /\ call.fn # "none" /\ call.before.fn # "none" /\ SameArguments(call)
       /\ ~call.before.threw
       /\ call.before.value.kind \in {"report", "text"}
       => ~call.hit /\ call.engine > 0

\* after a render was stored, a call that ended in an error report is
\* repeated and runs the renderer again
C27_Witness ==
  /\ call.fn # "none"
  /\ call.before.fn # "none"
  /\ SameArguments(call)
  /\ ~call.before.threw
  /\ call.before.value.kind = "report"
  /\ ~call.hit
  /\ ~call.threw
  /\ call.value.kind = "report"
  /\ Len(CacheEntries) = 1

(***************************************************************************)
(* Properties of the generation request                                    *)
(***************************************************************************)
\* the record ids of the entries of the log
LogIds == [i \in 1..Len(tasks.log) |-> tasks.log[i].record_id]

\* the URLs of the entries of the log that satisfy Test, in the order of the log
UrlsOf(log, Test(_)) ==
  [i \in 1..Len(SelectSeq(log, Test)) |-> SelectSeq(log, Test)[i].url]

Succeeded(entry) == entry.render = "ok" /\ entry.upload = "ok"

NotFailed(entry) ==
  entry.render \in {"ok", "simulated"} /\ entry.upload \in {"ok", "simulated"}

\* every record of the request was handled or skipped as a repetition, and
\* no record id was rendered twice
EveryRecordOnce ==
  /\ tasks.done =>
       \A i \in 1..Len(tasks.records) :
         \E j \in 1..Len(tasks.log) :
           tasks.log[j].record_id = Get(tasks.records[i], kRecordId)
  /\ \A i, j \in 1..Len(tasks.log) :
       i # j /\ tasks.log[i].render # "none" /\ tasks.log[j].render # "none"
         => LogIds[i] # LogIds[j]

\* C30: every record of the request is handled whatever failed before it, no
\* record id is rendered and uploaded twice, and documentUrls holds, in the
\* order of the records, the URLs of exactly the records whose render and
\* upload succeeded, whether the write-back succeeded or not
C30_UrlsOfSuccesses ==
  /\ EveryRecordOnce
  /\ tasks.documentUrls = UrlsOf(tasks.log, Succeeded)

\* C30 (amended): the same, where in development a failed render or upload is
\* replaced by a simulated one and counts as a success
C30_UrlsOfSuccessesOrSimulated ==
  /\ EveryRecordOnce
  /\ tasks.documentUrls = UrlsOf(tasks.log, NotFailed)
  /\ ~tasks.development => tasks.documentUrls = UrlsOf(tasks.log, Succeeded)

\* outside development a request ended in which the upload for a record
\* failed, a later record got its URL although its write-back failed, and a
\* repeated record id was skipped
C30_Witness ==
  /\ tasks.done
  /\ ~tasks.development
  /\ Len(tasks.records) = 3
  /\ Len(tasks.log) = 2
  /\ tasks.log[1].upload = "failed"
  /\ tasks.log[2].upload = "ok"
  /\ tasks.log[2].update = "failed"
  /\ tasks.documentUrls = <<tasks.log[2].url>>

TypeOK ==
  /\ calls \in 0..MaxCalls \cup 0..MaxRenders
  /\ repeats \in 0..MaxRepeats
  /\ now \in 0..MaxNow
  /\ call.threw \in BOOLEAN
  /\ writerOk \in BOOLEAN

====
